---- MODULE Spec2Model ----
(***************************************************************************)
(* OAuth 2.0 authorization-code-with-PKCE relay (src/oauth.py).            *)
(*                                                                         *)
(* The handlers are coroutines run by one event loop: a handler runs       *)
(* without interruption from one await of network I/O to the next.  Every  *)
(* action below is one such uninterrupted stretch of a handler.  A task is *)
(* one inbound connection; while its handler waits for the upstream        *)
(* provider the task holds the handler's position and local variables.     *)
(*                                                                         *)
(* What a handler answers and how it changes the maps is a function of the *)
(* request and of the maps: the ...Outcome operators compute it, and the   *)
(* actions apply it.  A request that is rejected changes nothing.          *)
(*                                                                         *)
(* Time is counted in minutes.  A missing query or form parameter and an   *)
(* empty one are both written "" (the handlers test them for truthiness    *)
(* only).                                                                  *)
(***************************************************************************)
EXTENDS Integers, FiniteSets, Sequences, TLC

(***************************************************************************)
(* Bounds of the model.                                                    *)
(***************************************************************************)
NumDbCalls == 2     \* database calls that may be in flight together
MaxDbClock == 1     \* the clock of the database calls stops here
MaxLogRows == 1     \* rows of tool_usage_logs the database calls write
NumTasks == 2       \* concurrent connections
MaxClock == 20      \* the clock stops here
MaxCodeObjs == 2    \* authorization-code records ever created by callback
MaxCodecClock == 120    \* the clock of the token codec stops here
MaxToolCalls == 2       \* calls of logged tools
CodecStep == 30         \* and advances by half the life of a token

(***************************************************************************)
(* Program constants.                                                      *)
(***************************************************************************)
CodeTTL == 10           \* timedelta(minutes=10)
JWT_EXPIRY_HOURS == 1

Tasks == 1..NumTasks
\* the asyncio tasks: those that serve requests, then those create_task makes
LoopTasks == 1..(NumTasks + MaxToolCalls)

(***************************************************************************)
(* The values requests are made of.  A universe U names the values the     *)
(* callers of one specification draw their requests from, and the          *)
(* environments the process may be started in.                             *)
(***************************************************************************)
DynamicClient == "dynamic-1"
DynamicIds == {DynamicClient}
OtherClient == "other-client"
LocalUri == "http://localhost:9999/cb"
RemoteUri == "https://client.example/cb"
RelayCallbackUri == "https://relay.example/callback"
States == {"s1"}
Codes == {"c1"}
DefaultSecret == "your-secret-key-change-this"

NoToken == [present |-> FALSE]

Universe ==
    [clients        |-> {"", DynamicClient, OtherClient},
     redirect_uris  |-> {LocalUri, RemoteUri},
     uri_sets       |-> {{}, {LocalUri}, {LocalUri, RemoteUri}},
     grant_sets     |-> {{"authorization_code"}, {"refresh_token"}},
     states         |-> {"", "s1"},
     challenges     |-> {"", "ch1"},
     methods        |-> {"S256"},
     codes          |-> {"", "c1"},
     verifiers      |-> {"", "v1", "v2"},
     token_clients  |-> {"", OtherClient, DynamicClient},
     grant_types    |-> {"authorization_code", "refresh_token"},
     credentials    |-> BOOLEAN,
     relay_uris     |-> {"", RelayCallbackUri},
     env_tokens     |-> {NoToken},
     auth_enabled   |-> {""},
     api_keys       |-> {<<>>}]

NoEntry == [present |-> FALSE]

\* no request has reached AuthWrapper yet
NoRequest == [type |-> "", path |-> "", authorization |-> ""]
NoAnswer == [status |-> 0, app_called |-> FALSE, raised |-> FALSE]
NoConfig == "none"
GoogleConfig == "google-openid-configuration"
GoogleClientId == "google-client-id"
GoogleAuthEndpoint == "google:authorization_endpoint"
\* user_info.get("sub"), user_info.get("email"): "" for a missing key
UserInfos == {[sub |-> "sub-1", email |-> "a@example.com"],
              [sub |-> "sub-1", email |-> ""],
              [sub |-> "", email |-> "a@example.com"]}
NoPayload == [present |-> FALSE, reason |-> "not validated"]
\* no user information: None, or an attribute that is not there
NoUser == [present |-> FALSE]
\* the database calls, and a call that is not in flight
DbCalls == 1..NumDbCalls
IdleCall == [pc |-> "idle", op |-> "", user_info |-> NoUser, exists |-> FALSE,
             at |-> 0]
\* the user information the middleware has for an authenticated request
Principals == {[present |-> TRUE, sub |-> "sub-1", email |-> "a@example.com"],
               [present |-> TRUE, sub |-> "sub-2", email |-> "b@example.com"]}
SyncTool == "add"
AsyncTool == "async_tool"
\* no Authorization header, or an empty one: "not authorization" is true
NoHeader == [scheme |-> "", token |-> NoToken]

VARIABLES
    google_config_cache,    \* _google_config_cache
    oauth_state_storage,    \* _oauth_state_storage: state -> pending entry
    authorization_codes,    \* _authorization_codes: code -> code record
    registered_clients,     \* _registered_clients: client_id -> registration
    code_objs,              \* number of code records created so far
    tokens_issued,          \* per code record: access tokens /token answered
    env,                    \* the process environment
    now,                    \* datetime.now(timezone.utc), in minutes
    tasks,                  \* per connection: handler, position, locals
    bearer,                 \* a bearer token in the hands of a caller
    payload,                \* what validate_jwt_token returned for it last
    header,                 \* the Authorization header of the last request
    principal,              \* what validate_request returned for it
    task_user_info,         \* per asyncio task: its attribute user_info
    ready,                  \* the logging tasks create_task has scheduled
    users,                  \* table users
    tool_usage_logs,        \* table tool_usage_logs
    tool_calls,             \* the calls of logged tools made so far
    request,                \* the request AuthWrapper was called with last
    answer,                 \* what AuthWrapper did with it
    db_calls                \* the database calls in flight

vars == <<google_config_cache, oauth_state_storage, authorization_codes,
          registered_clients, code_objs, tokens_issued, env, now, tasks,
          bearer, payload, header, principal, task_user_info, ready, users,
          tool_usage_logs, tool_calls, request, answer, db_calls>>

log_vars == <<task_user_info, ready, users, tool_usage_logs, tool_calls,
              db_calls>>

wrapper_vars == <<request, answer>>

(***************************************************************************)
(* PKCE utility.                                                           *)
(***************************************************************************)
\* a digest that takes every verifier to one value
generate_code_challenge_constant(code_verifier) == "ch1"

\* base64url(sha256(verifier)): injective on the verifiers of the model
generate_code_challenge(code_verifier) ==
    CASE code_verifier = "v1" -> "ch1"
      [] code_verifier = "v2" -> "ch2"
      [] OTHER -> "ch-of-empty"

verify_code_challenge(code_verifier, code_challenge) ==
    generate_code_challenge(code_verifier) = code_challenge

(***************************************************************************)
(* Token codec.                                                            *)
(***************************************************************************)
\* the life of the token counted in minutes where hours are meant
create_jwt_token_minutes(user_info, t) ==
    [present |-> TRUE, sub |-> user_info.sub, email |-> user_info.email,
     iat |-> t, exp |-> t + JWT_EXPIRY_HOURS, secret |-> env.JWT_SECRET_KEY]

create_jwt_token(user_info, t) ==
    [present |-> TRUE, sub |-> user_info.sub, email |-> user_info.email,
     iat |-> t, exp |-> t + JWT_EXPIRY_HOURS * 60, secret |-> env.JWT_SECRET_KEY]

\* jwt.decode at time t: the signature under JWT_SECRET_KEY, then the exp
\* claim; None, with the except branch taken as reason, when it raises
validate_jwt_token(token, t) ==
    IF ~token.present \/ token.secret # env.JWT_SECRET_KEY
    THEN [present |-> FALSE, reason |-> "invalid"]
    ELSE IF token.exp <= t
    THEN [present |-> FALSE, reason |-> "expired"]
    ELSE [present |-> TRUE, reason |-> "", sub |-> token.sub,
          email |-> token.email, iat |-> token.iat, exp |-> token.exp]

(***************************************************************************)
(* Request gate.                                                           *)
(***************************************************************************)
\* an Authorization header is a scheme prefix followed by a token; the
\* header that is only a token has the prefix ""
Header(scheme, token) == [scheme |-> scheme, token |-> token]

\* None: the gate found no token to validate
NoPrincipal == [present |-> FALSE, reason |-> "no token"]

\* a prefix test that takes any header for a bearer header
extract_bearer_token_any(authorization) == authorization.token

\* authorization[7:] if authorization.startswith("Bearer "), else None
extract_bearer_token(authorization) ==
    IF authorization = NoHeader THEN NoToken
    ELSE IF authorization.scheme = "Bearer " THEN authorization.token
    ELSE NoToken

\* a gate that falls back to the environment token whenever the header
\* yields no principal
validate_request_fallback(authorization, t) ==
    IF /\ ~validate_jwt_token(extract_bearer_token(authorization), t).present
       /\ env.MCP_AUTH_TOKEN.present
    THEN validate_jwt_token(env.MCP_AUTH_TOKEN, t)
    ELSE validate_jwt_token(extract_bearer_token(authorization), t)

validate_request(authorization, t) ==
    IF authorization = NoHeader
    THEN IF env.MCP_AUTH_TOKEN.present
         THEN validate_jwt_token(env.MCP_AUTH_TOKEN, t)
         ELSE NoPrincipal
    ELSE IF ~extract_bearer_token(authorization).present
    THEN NoPrincipal
    ELSE validate_jwt_token(extract_bearer_token(authorization), t)

(***************************************************************************)
(* Requests and responses.                                                 *)
(***************************************************************************)
EmptyReq ==
    [method |-> "", malformed |-> FALSE, client_id |-> "", redirect_uri |-> "",
     state |-> "", code_challenge |-> "", code_challenge_method |-> "",
     code |-> "", code_verifier |-> "", grant_type |-> "",
     redirect_uris |-> {}, grant_types |-> {}]

NoParams == [client_id |-> "", redirect_uri |-> "", state |-> "", code |-> "",
             code_challenge |-> "", code_challenge_method |-> ""]

\* kind "await": the handler has not answered yet, it waits for the upstream
Await == [kind |-> "await", status |-> 0, error |-> "", description |-> "",
          location |-> "", params |-> NoParams, token |-> NoToken,
          expires_in |-> 0]

JsonError(status, error, description) ==
    [Await EXCEPT !.kind = "json", !.status = status, !.error = error,
                  !.description = description]

JsonOk(status, description) ==
    [Await EXCEPT !.kind = "json", !.status = status,
                  !.description = description]

\* RedirectResponse(url): 307 is the framework's default status
Redirect(location, params) ==
    [Await EXCEPT !.kind = "redirect", !.status = 307, !.location = location,
                  !.params = params]

\* an exception that leaves the handler: the framework answers 500, not JSON
Unhandled == [Await EXCEPT !.kind = "exception", !.status = 500]

IdleTask == [pc |-> "idle", handler |-> "", req |-> EmptyReq, entry |-> 0]

\* connections are interchangeable: the next request is served by the first
\* task that is free
Free(t) ==
    /\ tasks[t].pc = "idle"
    /\ \A u \in Tasks : u < t => tasks[u].pc # "idle"

Finish(t) == tasks' = [tasks EXCEPT ![t] = IdleTask]

\* a suspended handler keeps its position and the locals it still reads
Suspend(t, handler, req, pc, entry) ==
    tasks' = [tasks EXCEPT ![t] =
                [pc |-> pc, handler |-> handler, req |-> req, entry |-> entry]]

InitOn(U) ==
    /\ google_config_cache = NoConfig
    /\ oauth_state_storage = [s \in States |-> NoEntry]
    /\ authorization_codes = [c \in Codes |-> NoEntry]
    /\ registered_clients = [c \in DynamicIds |-> NoEntry]
    /\ code_objs = 0
    /\ tokens_issued = [id \in 1..MaxCodeObjs |-> 0]
    /\ env \in [GOOGLE_CREDENTIALS : U.credentials,
                OAUTH_REDIRECT_URI : U.relay_uris,
                JWT_SECRET_KEY : {DefaultSecret},
                MCP_AUTH_TOKEN : U.env_tokens,
                AUTH_ENABLED : U.auth_enabled,
                API_KEYS : U.api_keys]
    /\ now = 0
    /\ tasks = [t \in Tasks |-> IdleTask]
    /\ bearer = NoToken
    /\ payload = NoPayload
    /\ header = NoHeader
    /\ principal = NoPayload
    /\ task_user_info = [k \in LoopTasks |-> NoUser]
    /\ ready = <<>>
    /\ users = {}
    /\ tool_usage_logs = <<>>
    /\ tool_calls = <<>>
    /\ request = NoRequest
    /\ answer = NoAnswer
    /\ db_calls = [c \in DbCalls |-> IdleCall]

(***************************************************************************)
(* The clock.                                                              *)
(***************************************************************************)
Tick ==
    /\ now + CodeTTL <= MaxClock
    /\ now' = now + CodeTTL
    /\ UNCHANGED <<bearer, payload, header, principal, log_vars, wrapper_vars>>
    /\ UNCHANGED <<google_config_cache, oauth_state_storage, authorization_codes,
                   registered_clients, code_objs, tokens_issued, env, tasks>>

(***************************************************************************)
(* Upstream client: the discovery document.                                *)
(***************************************************************************)
\* get_google_config returns at once, without suspending, on a filled cache
CacheHit == google_config_cache # NoConfig

\* a cache that is filled whether the fetch succeeded or not
CacheAfterFetchAlways(ok) == GoogleConfig

\* the cache after a discovery fetch has ended
CacheAfterFetch(ok) == IF ok THEN GoogleConfig ELSE google_config_cache

(***************************************************************************)
(* Client registry: register.                                              *)
(***************************************************************************)
RegisterRequests(U) ==
    {r \in [method : {"GET", "POST"}, malformed : BOOLEAN,
            redirect_uris : U.uri_sets, grant_types : U.grant_sets] :
        /\ r.method = "GET" => ~r.malformed
        /\ (r.method = "GET" \/ r.malformed) =>
              (r.redirect_uris = {} /\ r.grant_types = {"authorization_code"})}

\* a validation that rejects no registration request
RegistrationUnchecked(redirect_uris, grant_types) == ""

RegistrationError(redirect_uris, grant_types) ==
    IF redirect_uris = {} THEN "invalid_redirect_uri"
    ELSE IF "authorization_code" \notin grant_types THEN "invalid_client_metadata"
    ELSE ""

\* ids drawn without regard to the registrations that exist
AnyClientIds == DynamicIds

\* f"dynamic-{secrets.token_urlsafe(16)}": an id that no registration holds
FreshClientIds == {c \in DynamicIds : ~registered_clients[c].present}

\* client_info, with the fields the handlers read
ClientInfo(client_id, req) ==
    [present |-> TRUE, client_id |-> client_id,
     redirect_uris |-> req.redirect_uris, grant_types |-> req.grant_types]

\* the answer of register and the registry after it
RegisterOutcome(req, client_id) ==
    IF req.method = "GET"
    THEN [resp |-> JsonOk(200, "registration information"),
          clients |-> registered_clients]
    ELSE IF req.malformed
    THEN [resp |-> JsonError(500, "server_error", "exception"),
          clients |-> registered_clients]
    ELSE IF RegistrationError(req.redirect_uris, req.grant_types) # ""
    THEN [resp |-> JsonError(400,
                     RegistrationError(req.redirect_uris, req.grant_types),
                     "invalid registration"),
          clients |-> registered_clients]
    ELSE [resp |-> [JsonOk(201, "client_info") EXCEPT
                      !.params = [NoParams EXCEPT !.client_id = client_id]],
          clients |-> [registered_clients EXCEPT
                         ![client_id] = ClientInfo(client_id, req)]]

Register(t, U) ==
    /\ Free(t)
    /\ \E req \in RegisterRequests(U), client_id \in FreshClientIds :
          registered_clients' = RegisterOutcome(req, client_id).clients
    /\ UNCHANGED <<bearer, payload, header, principal, log_vars, wrapper_vars>>
    /\ UNCHANGED <<google_config_cache, oauth_state_storage, authorization_codes,
                   code_objs, tokens_issued, env, now, tasks>>

(***************************************************************************)
(* Flow coordinator: authorize.                                            *)
(***************************************************************************)
AuthorizeRequests(U) ==
    {[EmptyReq EXCEPT !.method = "GET", !.client_id = r.client_id,
                      !.redirect_uri = r.redirect_uri, !.state = r.state,
                      !.code_challenge = r.code_challenge,
                      !.code_challenge_method = r.code_challenge_method] :
       r \in {q \in [client_id : U.clients, redirect_uri : U.redirect_uris,
                     state : U.states, code_challenge : U.challenges,
                     code_challenge_method : U.methods] :
                q.code_challenge = "" => q.code_challenge_method = "S256"}}

\* client_id.startswith("dynamic-")
IsDynamic(client_id) == client_id \in DynamicIds

\* any redirect_uri taken for registered once the client is
RedirectUriUnchecked(redirect_uri, client_info) == TRUE

\* redirect_uri in client_info["redirect_uris"]
RedirectUriRegistered(redirect_uri, client_info) ==
    redirect_uri \in client_info.redirect_uris

\* the validation of client_id and redirect_uri: <<error, description>>,
\* <<"", "">> when the request passes
AuthorizeError(client_id, redirect_uri) ==
    IF client_id = "" THEN <<"invalid_request", "Missing client_id">>
    ELSE IF IsDynamic(client_id)
    THEN IF ~registered_clients[client_id].present
         THEN <<"invalid_client", "Unknown client_id">>
         ELSE IF ~RedirectUriRegistered(redirect_uri,
                                        registered_clients[client_id])
         THEN <<"invalid_request", "Invalid redirect_uri">>
         ELSE <<"", "">>
    ELSE <<"", "">>

\* callback_redirect_uri
CallbackRedirectUri(client_id, redirect_uri) ==
    IF IsDynamic(client_id) THEN redirect_uri
    ELSE IF env.OAUTH_REDIRECT_URI # "" THEN env.OAUTH_REDIRECT_URI
    ELSE redirect_uri

\* if state and code_challenge
StoresState(state, code_challenge) == state # "" /\ code_challenge # ""

\* an entry that an earlier authorize call recorded for the state is kept
PendingEntryKept(req) ==
    IF oauth_state_storage[req.state].present
    THEN oauth_state_storage[req.state]
    ELSE [present |-> TRUE,
          code_challenge |-> req.code_challenge,
          code_challenge_method |-> req.code_challenge_method,
          client_id |-> req.client_id,
          redirect_uri |-> CallbackRedirectUri(req.client_id, req.redirect_uri),
          created_at |-> now]

PendingEntry(req) ==
    [present |-> TRUE,
     code_challenge |-> req.code_challenge,
     code_challenge_method |-> req.code_challenge_method,
     client_id |-> req.client_id,
     redirect_uri |-> CallbackRedirectUri(req.client_id, req.redirect_uri),
     created_at |-> now]

\* a redirect that sends the upstream back to the URI kept for the client
UpstreamRedirectToClient(req) ==
    Redirect(GoogleAuthEndpoint,
             [NoParams EXCEPT
                !.client_id = GoogleClientId,
                !.redirect_uri =
                    CallbackRedirectUri(req.client_id, req.redirect_uri),
                !.state = req.state,
                !.code_challenge = req.code_challenge,
                !.code_challenge_method =
                    IF req.code_challenge # "" THEN req.code_challenge_method
                    ELSE ""])

\* the redirect to the upstream authorization endpoint
UpstreamRedirect(req) ==
    Redirect(GoogleAuthEndpoint,
             [NoParams EXCEPT
                !.client_id = GoogleClientId,
                !.redirect_uri = env.OAUTH_REDIRECT_URI,
                !.state = req.state,
                !.code_challenge = req.code_challenge,
                !.code_challenge_method =
                    IF req.code_challenge # "" THEN req.code_challenge_method
                    ELSE ""])

\* an authorize that leaves alone the entry an earlier call recorded for the
\* state
AuthorizeOutcomeKeepsFirst(req) ==
    IF ~env.GOOGLE_CREDENTIALS
    THEN [resp |-> JsonError(500, "OAuth not configured", ""),
          storage |-> oauth_state_storage]
    ELSE IF AuthorizeError(req.client_id, req.redirect_uri)[1] # ""
    THEN [resp |-> JsonError(400,
                     AuthorizeError(req.client_id, req.redirect_uri)[1],
                     AuthorizeError(req.client_id, req.redirect_uri)[2]),
          storage |-> oauth_state_storage]
    ELSE [resp |-> IF CacheHit THEN UpstreamRedirect(req) ELSE Await,
          storage |-> IF /\ StoresState(req.state, req.code_challenge)
                         /\ ~oauth_state_storage[req.state].present
                      THEN [oauth_state_storage EXCEPT
                              ![req.state] = PendingEntry(req)]
                      ELSE oauth_state_storage]

\* authorize up to its answer, or up to the discovery fetch it has to wait for
AuthorizeOutcome(req) ==
    IF ~env.GOOGLE_CREDENTIALS
    THEN [resp |-> JsonError(500, "OAuth not configured", ""),
          storage |-> oauth_state_storage]
    ELSE IF AuthorizeError(req.client_id, req.redirect_uri)[1] # ""
    THEN [resp |-> JsonError(400,
                     AuthorizeError(req.client_id, req.redirect_uri)[1],
                     AuthorizeError(req.client_id, req.redirect_uri)[2]),
          storage |-> oauth_state_storage]
    ELSE [resp |-> IF CacheHit THEN UpstreamRedirect(req) ELSE Await,
          storage |-> IF StoresState(req.state, req.code_challenge)
                      THEN [oauth_state_storage EXCEPT
                              ![req.state] = PendingEntry(req)]
                      ELSE oauth_state_storage]

\* the locals authorize reads after the discovery fetch
AuthorizeLocals(req) ==
    [EmptyReq EXCEPT !.state = req.state,
                     !.code_challenge = req.code_challenge,
                     !.code_challenge_method = req.code_challenge_method]

AuthorizeReq(t, req) ==
    /\ Free(t)
    /\ oauth_state_storage' = AuthorizeOutcome(req).storage
    /\ IF AuthorizeOutcome(req).resp.kind = "await"
       THEN Suspend(t, "authorize", AuthorizeLocals(req), "fetch_config", 0)
       ELSE Finish(t)
    /\ UNCHANGED <<bearer, payload, header, principal, log_vars, wrapper_vars>>
    /\ UNCHANGED <<google_config_cache, authorization_codes, registered_clients,
                   code_objs, tokens_issued, env, now>>

Authorize(t, U) == \E req \in AuthorizeRequests(U) : AuthorizeReq(t, req)

\* the answer of authorize once its discovery fetch has ended: on failure the
\* exception of get_google_config leaves the handler
AuthorizeConfigResponse(req, ok) ==
    IF ok THEN UpstreamRedirect(req) ELSE Unhandled

AuthorizeConfig(t) ==
    /\ tasks[t].pc = "fetch_config"
    /\ tasks[t].handler = "authorize"
    /\ \E ok \in BOOLEAN : google_config_cache' = CacheAfterFetch(ok)
    /\ Finish(t)
    /\ UNCHANGED <<bearer, payload, header, principal, log_vars, wrapper_vars>>
    /\ UNCHANGED <<oauth_state_storage, authorization_codes, registered_clients,
                   code_objs, tokens_issued, env, now>>

(***************************************************************************)
(* Flow coordinator: callback.                                             *)
(***************************************************************************)
CallbackRequests(U) ==
    {[EmptyReq EXCEPT !.method = "GET", !.code = r.code, !.state = r.state] :
        r \in [code : U.codes, state : U.states]}

\* state and state in _oauth_state_storage
KnownState(state) ==
    state # "" /\ state \in DOMAIN oauth_state_storage
               /\ oauth_state_storage[state].present

\* a record that is not bound to the client of the pending authorization
AuthCodeDataUnbound(code, oauth_state, id) ==
    [present |-> TRUE, id |-> id, code |-> code,
     code_challenge |-> oauth_state.code_challenge,
     code_challenge_method |-> oauth_state.code_challenge_method,
     client_id |-> "", created_at |-> now, used |-> FALSE]

\* auth_code_data: a new record, the id-th the process creates
AuthCodeData(code, oauth_state, id) ==
    [present |-> TRUE, id |-> id, code |-> code,
     code_challenge |-> oauth_state.code_challenge,
     code_challenge_method |-> oauth_state.code_challenge_method,
     client_id |-> oauth_state.client_id,
     created_at |-> now, used |-> FALSE]

\* the pending entry read but left in the storage
DeleteStateForgotten(storage, state) == storage

\* del _oauth_state_storage[state]
DeleteState(storage, state) == [storage EXCEPT ![state] = NoEntry]

\* client_redirect_uri.startswith("http://localhost")
IsLocalhost(uri) == uri \in {LocalUri}

\* the answer on the branch of a known state
RelayResponse(req, oauth_state) ==
    IF oauth_state.redirect_uri # "" /\ IsLocalhost(oauth_state.redirect_uri)
    THEN Redirect(oauth_state.redirect_uri,
                  [NoParams EXCEPT !.code = req.code, !.state = req.state])
    ELSE JsonOk(200, "Authorization code received")

\* callback up to its answer, or up to the upstream call it has to wait for
CallbackOutcome(req) ==
    IF req.code = ""
    THEN [branch |-> "error",
          resp |-> JsonError(400, "OAuth callback error", ""),
          storage |-> oauth_state_storage, codes |-> authorization_codes]
    ELSE IF KnownState(req.state)
    THEN [branch |-> "relay",
          resp |-> RelayResponse(req, oauth_state_storage[req.state]),
          storage |-> DeleteState(oauth_state_storage, req.state),
          codes |-> [authorization_codes EXCEPT
                       ![req.code] = AuthCodeData(req.code,
                                        oauth_state_storage[req.state],
                                        code_objs + 1)]]
    ELSE [branch |-> "direct", resp |-> Await,
          storage |-> oauth_state_storage, codes |-> authorization_codes]

\* the locals callback reads after its first upstream call
CallbackLocals(req) == [EmptyReq EXCEPT !.code = req.code]

CallbackReq(t, req) ==
    /\ Free(t)
    /\ CallbackOutcome(req).branch = "relay" => code_objs < MaxCodeObjs
    /\ oauth_state_storage' = CallbackOutcome(req).storage
    /\ authorization_codes' = CallbackOutcome(req).codes
    /\ code_objs' = IF CallbackOutcome(req).branch = "relay"
                    THEN code_objs + 1 ELSE code_objs
    /\ IF CallbackOutcome(req).branch = "direct"
       THEN Suspend(t, "callback", CallbackLocals(req),
                    IF CacheHit THEN "exchange" ELSE "fetch_config", 0)
       ELSE Finish(t)
    /\ UNCHANGED <<bearer, payload, header, principal, log_vars, wrapper_vars>>
    /\ UNCHANGED <<google_config_cache, registered_clients, tokens_issued, env,
                   now>>

Callback(t, U) == \E req \in CallbackRequests(U) : CallbackReq(t, req)

\* the discovery fetch of callback ends: it is made outside the try block, so
\* on failure the exception leaves the handler
CallbackConfigResponse(ok) == IF ok THEN Await ELSE Unhandled

CallbackConfig(t) ==
    /\ tasks[t].pc = "fetch_config"
    /\ tasks[t].handler = "callback"
    /\ \E ok \in BOOLEAN :
        /\ google_config_cache' = CacheAfterFetch(ok)
        /\ IF CallbackConfigResponse(ok).kind = "await"
           THEN Suspend(t, "callback", tasks[t].req, "exchange", 0)
           ELSE Finish(t)
    /\ UNCHANGED <<bearer, payload, header, principal, log_vars, wrapper_vars>>
    /\ UNCHANGED <<oauth_state_storage, authorization_codes, registered_clients,
                   code_objs, tokens_issued, env, now>>

\* client.fetch_token ends: an exception is answered 400
CallbackExchangeResponse(ok) ==
    IF ok THEN Await ELSE JsonError(400, "Token exchange failed", "")

CallbackExchange(t) ==
    /\ tasks[t].pc = "exchange"
    /\ tasks[t].handler = "callback"
    /\ \E ok \in BOOLEAN :
        IF CallbackExchangeResponse(ok).kind = "await"
        THEN Suspend(t, "callback", tasks[t].req, "userinfo", 0)
        ELSE Finish(t)
    /\ UNCHANGED <<bearer, payload, header, principal, log_vars, wrapper_vars>>
    /\ UNCHANGED <<google_config_cache, oauth_state_storage, authorization_codes,
                   registered_clients, code_objs, tokens_issued, env, now>>

\* client.get(userinfo_endpoint) ends: the page with the token, whatever the
\* status of the upstream answer; an exception is answered 400
CallbackUserinfoResponse(ok, user_info) ==
    IF ok
    THEN [Await EXCEPT !.kind = "html", !.status = 200,
                       !.token = create_jwt_token(user_info, now)]
    ELSE JsonError(400, "Token exchange failed", "")

CallbackUserinfo(t) ==
    /\ tasks[t].pc = "userinfo"
    /\ tasks[t].handler = "callback"
    /\ Finish(t)
    /\ UNCHANGED <<bearer, payload, header, principal, log_vars, wrapper_vars>>
    /\ UNCHANGED <<google_config_cache, oauth_state_storage, authorization_codes,
                   registered_clients, code_objs, tokens_issued, env, now>>

(***************************************************************************)
(* Flow coordinator: token.                                                *)
(***************************************************************************)
TokenRequests(U) ==
    {[EmptyReq EXCEPT !.method = "POST", !.grant_type = r.grant_type,
                      !.code = r.code, !.code_verifier = r.code_verifier,
                      !.client_id = r.client_id] :
        r \in [grant_type : U.grant_types, code : U.codes,
               code_verifier : U.verifiers, client_id : U.token_clients]}

\* _authorization_codes.get(code)
LookupCode(code) ==
    IF code \in DOMAIN authorization_codes THEN authorization_codes[code]
    ELSE NoEntry

\* a lookup that tests only the presence of the record, not its used flag
AbsentOnly(auth_code_data) == ~auth_code_data.present

\* not auth_code_data or auth_code_data["used"]
AbsentOrUsed(auth_code_data) ==
    ~auth_code_data.present \/ auth_code_data.used

\* the client_id of the request compared with nothing
ClientUnchecked(client_id, auth_code_data) == FALSE

\* client_id and auth_code_data.get("client_id") != client_id
ClientMismatch(client_id, auth_code_data) ==
    client_id # "" /\ auth_code_data.client_id # client_id

\* the window taken as 10 hours instead of 10 minutes
CodeExpiredHours(created_at, t) == t - created_at > 60 * CodeTTL

\* datetime.now(timezone.utc) - created_at > timedelta(minutes=10)
CodeExpired(created_at, t) == t - created_at > CodeTTL

\* the verifier compared with nothing
PkceUnchecked(code_verifier, auth_code_data) == FALSE

\* code_challenge and not verify_code_challenge(code_verifier, code_challenge)
PkceMismatch(code_verifier, auth_code_data) ==
    /\ auth_code_data.code_challenge # ""
    /\ ~verify_code_challenge(code_verifier, auth_code_data.code_challenge)

\* the checks of token in their order: <<error, description>>, <<"", "">>
\* when the request passes them all
TokenError(req) ==
    IF req.grant_type # "authorization_code"
    THEN <<"unsupported_grant_type", "Grant type must be authorization_code">>
    ELSE IF req.code = ""
    THEN <<"invalid_request", "Missing authorization code">>
    ELSE IF req.code_verifier = ""
    THEN <<"invalid_request", "Missing code_verifier (PKCE required)">>
    ELSE IF AbsentOrUsed(LookupCode(req.code))
    THEN <<"invalid_grant", "Invalid or expired authorization code">>
    ELSE IF ClientMismatch(req.client_id, LookupCode(req.code))
    THEN <<"invalid_client", "Client ID mismatch">>
    ELSE IF CodeExpired(LookupCode(req.code).created_at, now)
    THEN <<"invalid_grant", "Authorization code expired">>
    ELSE IF PkceMismatch(req.code_verifier, LookupCode(req.code))
    THEN <<"invalid_grant", "Invalid code_verifier">>
    ELSE <<"", "">>

\* the record left as it is: a token handler that forgets to mark the code
MarkUsedForgotten(auth_code_data) == auth_code_data

\* auth_code_data["used"] = True
MarkUsed(auth_code_data) == [auth_code_data EXCEPT !.used = TRUE]

\* a token handler that marks the record of the code before it checks the
\* request
TokenOutcomeMarksFirst(req) ==
    IF TokenError(req)[1] # ""
    THEN [resp |-> JsonError(400, TokenError(req)[1], TokenError(req)[2]),
          codes |-> IF req.code \in Codes /\ LookupCode(req.code).present
                    THEN [authorization_codes EXCEPT
                            ![req.code] = MarkUsed(authorization_codes[req.code])]
                    ELSE authorization_codes]
    ELSE [resp |-> Await,
          codes |-> [authorization_codes EXCEPT
                       ![req.code] = MarkUsed(authorization_codes[req.code])]]

\* token up to its answer, or up to the upstream call it has to wait for
TokenOutcome(req) ==
    IF TokenError(req)[1] # ""
    THEN [resp |-> JsonError(400, TokenError(req)[1], TokenError(req)[2]),
          codes |-> authorization_codes]
    ELSE [resp |-> Await,
          codes |-> [authorization_codes EXCEPT
                       ![req.code] = MarkUsed(authorization_codes[req.code])]]

\* the locals token reads after its first upstream call
TokenLocals(req) ==
    [EmptyReq EXCEPT !.code = req.code, !.code_verifier = req.code_verifier]

TokenReq(t, req) ==
    /\ Free(t)
    /\ authorization_codes' = TokenOutcome(req).codes
    /\ IF TokenOutcome(req).resp.kind = "await"
       THEN Suspend(t, "token", TokenLocals(req),
                    IF CacheHit THEN "exchange" ELSE "fetch_config",
                    authorization_codes[req.code].id)
       ELSE Finish(t)
    /\ UNCHANGED <<bearer, payload, header, principal, log_vars, wrapper_vars>>
    /\ UNCHANGED <<google_config_cache, oauth_state_storage, registered_clients,
                   code_objs, tokens_issued, env, now>>

Token(t, U) == \E req \in TokenRequests(U) : TokenReq(t, req)

\* the discovery fetch of token ends: every exception in token is caught and
\* answered 500
TokenConfigResponse(ok) ==
    IF ok THEN Await ELSE JsonError(500, "server_error", "exception")

TokenConfig(t) ==
    /\ tasks[t].pc = "fetch_config"
    /\ tasks[t].handler = "token"
    /\ \E ok \in BOOLEAN :
        /\ google_config_cache' = CacheAfterFetch(ok)
        /\ IF TokenConfigResponse(ok).kind = "await"
           THEN Suspend(t, "token", tasks[t].req, "exchange", tasks[t].entry)
           ELSE Finish(t)
    /\ UNCHANGED <<bearer, payload, header, principal, log_vars, wrapper_vars>>
    /\ UNCHANGED <<oauth_state_storage, authorization_codes, registered_clients,
                   code_objs, tokens_issued, env, now>>

\* what the upstream token endpoint may answer to the POST
ExchangeResults == {"ok", "no_access_token", "non_200", "exception"}

TokenExchangeResponse(result) ==
    CASE result = "ok" -> Await
      [] result = "no_access_token" ->
            JsonError(500, "server_error", "No access token received from Google")
      [] result = "non_200" ->
            JsonError(500, "server_error",
                      "Failed to exchange authorization code with Google")
      [] OTHER -> JsonError(500, "server_error", "exception")

TokenExchange(t) ==
    /\ tasks[t].pc = "exchange"
    /\ tasks[t].handler = "token"
    /\ \E result \in ExchangeResults :
        IF TokenExchangeResponse(result).kind = "await"
        THEN Suspend(t, "token", tasks[t].req, "userinfo", tasks[t].entry)
        ELSE Finish(t)
    /\ UNCHANGED <<bearer, payload, header, principal, log_vars, wrapper_vars>>
    /\ UNCHANGED <<google_config_cache, oauth_state_storage, authorization_codes,
                   registered_clients, code_objs, tokens_issued, env, now>>

\* what the upstream userinfo endpoint may answer to the GET
UserinfoResults == {"ok", "non_200", "exception"}

\* the answer of token once the userinfo fetch has ended
TokenUserinfoResponse(result, user_info) ==
    CASE result = "ok" ->
            [JsonOk(200, "") EXCEPT
                !.token = create_jwt_token(user_info, now),
                !.expires_in = JWT_EXPIRY_HOURS * 3600]
      [] result = "non_200" ->
            JsonError(500, "server_error", "Failed to get user info from Google")
      [] OTHER -> JsonError(500, "server_error", "exception")

\* the count of access tokens after an answer of token for code record id
CountToken(resp, id) ==
    IF resp.token.present
    THEN [tokens_issued EXCEPT ![id] = @ + 1]
    ELSE tokens_issued

TokenUserinfo(t) ==
    /\ tasks[t].pc = "userinfo"
    /\ tasks[t].handler = "token"
    /\ \E result \in UserinfoResults, user_info \in UserInfos :
          tokens_issued' = CountToken(TokenUserinfoResponse(result, user_info),
                                      tasks[t].entry)
    /\ Finish(t)
    /\ UNCHANGED <<bearer, payload, header, principal, log_vars, wrapper_vars>>
    /\ UNCHANGED <<google_config_cache, oauth_state_storage, authorization_codes,
                   registered_clients, code_objs, env, now>>

(***************************************************************************)
(* The relay.                                                              *)
(***************************************************************************)
NextOn(U) ==
    \/ Tick
    \/ \E t \in Tasks : Register(t, U)
    \/ \E t \in Tasks : Authorize(t, U)
    \/ \E t \in Tasks : AuthorizeConfig(t)
    \/ \E t \in Tasks : Callback(t, U)
    \/ \E t \in Tasks : CallbackConfig(t)
    \/ \E t \in Tasks : CallbackExchange(t)
    \/ \E t \in Tasks : CallbackUserinfo(t)
    \/ \E t \in Tasks : Token(t, U)
    \/ \E t \in Tasks : TokenConfig(t)
    \/ \E t \in Tasks : TokenExchange(t)
    \/ \E t \in Tasks : TokenUserinfo(t)

Init == InitOn(Universe)
Next == NextOn(Universe)
Spec == Init /\ [][Next]_vars

(***************************************************************************)
(* The token codec seen from a caller: the caller receives the bearer      *)
(* token that the last stretch of token, or of callback on its direct      *)
(* branch, answers, and has it validated as time goes by.                  *)
(***************************************************************************)
relay_vars == <<google_config_cache, oauth_state_storage, authorization_codes,
                registered_clients, code_objs, tokens_issued, env, tasks>>

CodecTick ==
    /\ now + CodecStep <= MaxCodecClock
    /\ now' = now + CodecStep
    /\ UNCHANGED <<relay_vars, bearer, payload, header, principal, log_vars, wrapper_vars>>

\* the answer of token after the userinfo fetch reaches the caller
TokenAnswer ==
    /\ \E result \in UserinfoResults, user_info \in UserInfos :
          /\ TokenUserinfoResponse(result, user_info).token.present
          /\ bearer' = TokenUserinfoResponse(result, user_info).token
    /\ UNCHANGED <<relay_vars, now, payload, header, principal, log_vars, wrapper_vars>>

\* the page of callback after the userinfo fetch reaches the caller
CallbackAnswer ==
    /\ \E ok \in BOOLEAN, user_info \in UserInfos :
          /\ CallbackUserinfoResponse(ok, user_info).token.present
          /\ bearer' = CallbackUserinfoResponse(ok, user_info).token
    /\ UNCHANGED <<relay_vars, now, payload, header, principal, log_vars, wrapper_vars>>

Validate ==
    /\ bearer.present
    /\ payload' = validate_jwt_token(bearer, now)
    /\ UNCHANGED <<relay_vars, now, bearer, header, principal, log_vars, wrapper_vars>>

\* the headers a caller that holds token may send
Headers(token) ==
    {NoHeader, Header("Bearer ", token), Header("bearer ", token),
     Header("", token)}

\* a request passes the gate with one of the headers the caller can make
\* from the bearer token it holds, if any
Gate ==
    /\ \E h \in Headers(bearer) :
          /\ header' = h
          /\ principal' = validate_request(h, now)
    /\ UNCHANGED <<relay_vars, now, bearer, payload, log_vars, wrapper_vars>>

\* the token the operator generated before the start, at time iat
OperatorToken(iat, secret) ==
    [present |-> TRUE, sub |-> "sub-op", email |-> "op@example.com",
     iat |-> iat, exp |-> iat + JWT_EXPIRY_HOURS * 60, secret |-> secret]

\* MCP_AUTH_TOKEN: unset, a token good for an hour, a token that has
\* expired, a token signed with another secret
OperatorTokens ==
    {NoToken, OperatorToken(0, DefaultSecret),
     OperatorToken(0 - JWT_EXPIRY_HOURS * 60, DefaultSecret),
     OperatorToken(0, "another-secret")}

CodecUniverse == [Universe EXCEPT !.env_tokens = OperatorTokens]

CodecInit == InitOn(CodecUniverse)
CodecNext == CodecTick \/ TokenAnswer \/ CallbackAnswer \/ Validate \/ Gate
CodecSpec == CodecInit /\ [][CodecNext]_vars

(***************************************************************************)
(* The relay with its upstream credentials, used by clients that register  *)
(* one redirect URI, on localhost or not, and that name either PKCE        *)
(* method.                                                                 *)
(***************************************************************************)
FlowUniverse ==
    [clients        |-> {DynamicClient},
     redirect_uris  |-> {LocalUri, RemoteUri},
     uri_sets       |-> {{LocalUri}, {RemoteUri}},
     grant_sets     |-> {{"authorization_code"}},
     states         |-> {"s1"},
     challenges     |-> {"ch1", "ch2"},
     methods        |-> {"S256", "plain"},
     codes          |-> {"c1"},
     verifiers      |-> {"v1", "v2"},
     token_clients  |-> {"", DynamicClient},
     grant_types    |-> {"authorization_code"},
     credentials    |-> {TRUE},
     relay_uris     |-> {RelayCallbackUri},
     env_tokens     |-> {NoToken},
     auth_enabled   |-> {""},
     api_keys       |-> {<<>>}]

FlowInit == InitOn(FlowUniverse)
FlowNext == NextOn(FlowUniverse)
FlowSpec == FlowInit /\ [][FlowNext]_vars

(***************************************************************************)
(* Tool usage logging: the decorator logged_tool, the user context of a    *)
(* request and the tables the records are written to.                      *)
(***************************************************************************)
oauth_vars == <<relay_vars, now, bearer, payload, header, principal>>

\* contextvars.ContextVar('user_context', default=None).get(): the variable
\* is made anew by every call, so that it holds its default
ContextVarGet == NoUser

\* _get_user_context, awaited in task k: the context variable, then the
\* attribute user_info of the current task
get_user_context(k) ==
    IF ContextVarGet.present THEN ContextVarGet
    ELSE IF task_user_info[k].present THEN task_user_info[k]
    ELSE NoUser

\* user_info.get("name", "")
Name(user_info) == IF "name" \in DOMAIN user_info THEN user_info.name ELSE ""

\* SELECT user_id FROM users WHERE user_id = ?, and fetchone
SelectUser(user_id) == \E row \in users : row.user_id = user_id

\* the write of upsert_user on a table without PRIMARY KEY and UNIQUE
WriteUserUnchecked(user_info, exists, at) ==
    IF exists
    THEN {IF row.user_id = user_info.sub
          THEN [row EXCEPT !.name = Name(user_info), !.last_seen = at]
          ELSE row : row \in users}
    ELSE users \cup {[user_id |-> user_info.sub, email |-> user_info.email,
                      name |-> Name(user_info), first_seen |-> at,
                      last_seen |-> at]}
\* the write of upsert_user and its commit, given what the SELECT found and
\* the time the call took at its start: the UPDATE of name and last_seen,
\* or the INSERT, which the table refuses for a user_id (PRIMARY KEY) or an
\* email (UNIQUE) it holds already; the exception is logged and dropped
WriteUser(user_info, exists, at) ==
    IF exists
    THEN {IF row.user_id = user_info.sub
          THEN [row EXCEPT !.name = Name(user_info), !.last_seen = at]
          ELSE row : row \in users}
    ELSE IF \E row \in users : \/ row.user_id = user_info.sub
                               \/ row.email = user_info.email
         THEN users
         ELSE users \cup {[user_id |-> user_info.sub,
                           email |-> user_info.email,
                           name |-> Name(user_info), first_seen |-> at,
                           last_seen |-> at]}

\* upsert_user, awaited with no other database call in flight: table users
\* after it
upsert_user(user_info) ==
    IF user_info.sub = "" \/ user_info.email = "" THEN users
    ELSE WriteUser(user_info, SelectUser(user_info.sub), now)

\* log_tool_usage: the tables after it, <<users, tool_usage_logs>>
log_tool_usage(user_info, tool_name, success) ==
    IF user_info.sub = "" \/ user_info.email = ""
    THEN <<users, tool_usage_logs>>
    ELSE <<upsert_user(user_info),
           Append(tool_usage_logs,
                  [user_id |-> user_info.sub, user_email |-> user_info.email,
                   tool_name |-> tool_name, success |-> success])>>

\* what the wrappers write once they have asked for the user context
LogIfUser(user_info, tool_name, success) ==
    IF user_info.present
    THEN log_tool_usage(user_info, tool_name, success)
    ELSE <<users, tool_usage_logs>>

\* the task that create_task makes next: a task of its own, without the
\* attribute user_info
NewTask == NumTasks + 1 + Cardinality({i \in DOMAIN tool_calls :
                                         tool_calls[i].tool_name = SyncTool})

\* set_user_context(user_info) in the request task k
SetUserContext(k) ==
    /\ \E user_info \in Principals :
          task_user_info' = [task_user_info EXCEPT ![k] = user_info]
    /\ UNCHANGED <<oauth_vars, wrapper_vars, db_calls, ready, users, tool_usage_logs, tool_calls>>

\* clear_user_context() in the request task k
ClearUserContext(k) ==
    /\ task_user_info[k].present
    /\ task_user_info' = [task_user_info EXCEPT ![k] = NoUser]
    /\ UNCHANGED <<oauth_vars, wrapper_vars, db_calls, ready, users, tool_usage_logs, tool_calls>>

\* sync_wrapper, called in task k: the tool runs, and the finally block
\* schedules _log_sync_tool_usage as a task of its own
SyncWrapper(k) ==
    /\ Len(tool_calls) < MaxToolCalls
    /\ \E success \in BOOLEAN :
          /\ ready' = Append(ready, [task |-> NewTask, tool_name |-> SyncTool,
                                     success |-> success])
          /\ tool_calls' = Append(tool_calls,
                                  [tool_name |-> SyncTool,
                                   user_info |-> task_user_info[k],
                                   success |-> success])
    /\ UNCHANGED <<oauth_vars, wrapper_vars, db_calls, task_user_info, users, tool_usage_logs>>

\* how the awaited tool ends: it returns its result, it raises an
\* Exception, or it ends in a BaseException that is no Exception, as
\* asyncio.CancelledError when the call is cancelled
ToolOutcomes == {"returned", "raised", "cancelled"}

\* success as the finally block finds it: True unless the clause
\* "except Exception" has run
SuccessFlag(tool) == tool # "raised"

\* async_wrapper, awaited in task k: the tool ends, the finally block calls
\* log_tool_usage once when there is a user context, dropping whatever the
\* call raises, and the wrapper ends as the tool did
AsyncWrapper(k) ==
    /\ Len(tool_calls) < MaxToolCalls
    /\ \E tool \in ToolOutcomes, log_fails \in BOOLEAN :
          LET written == IF log_fails THEN <<users, tool_usage_logs>>
                         ELSE LogIfUser(get_user_context(k), AsyncTool,
                                        SuccessFlag(tool))
          IN  /\ users' = written[1]
              /\ tool_usage_logs' = written[2]
              /\ tool_calls' =
                    Append(tool_calls,
                           [tool_name |-> AsyncTool,
                            user_info |-> task_user_info[k],
                            success |-> SuccessFlag(tool),
                            tool |-> tool,
                            outcome |-> tool,
                            log_calls |-> IF get_user_context(k).present
                                          THEN 1 ELSE 0,
                            log_fails |-> log_fails])
    /\ UNCHANGED <<oauth_vars, wrapper_vars, db_calls, task_user_info, ready>>

\* the event loop runs the logging task that was scheduled first:
\* _log_sync_tool_usage
LogSyncToolUsage ==
    /\ ready # <<>>
    /\ users' = LogIfUser(get_user_context(Head(ready).task),
                          Head(ready).tool_name, Head(ready).success)[1]
    /\ tool_usage_logs' = LogIfUser(get_user_context(Head(ready).task),
                                    Head(ready).tool_name,
                                    Head(ready).success)[2]
    /\ ready' = Tail(ready)
    /\ UNCHANGED <<oauth_vars, wrapper_vars, db_calls, task_user_info, tool_calls>>

LogNext ==
    \/ \E k \in Tasks : SetUserContext(k)
    \/ \E k \in Tasks : ClearUserContext(k)
    \/ \E k \in Tasks : SyncWrapper(k)
    \/ \E k \in Tasks : AsyncWrapper(k)
    \/ LogSyncToolUsage

\* the event loop runs every task that create_task has scheduled
LogSpec == Init /\ [][LogNext]_vars /\ WF_vars(LogSyncToolUsage)

(***************************************************************************)
(* The database calls at their suspension points: upsert_user selects,     *)
(* then writes; log_tool_usage awaits upsert_user, then inserts its row.   *)
(***************************************************************************)
UserInfo(sub, email, name) ==
    [present |-> TRUE, sub |-> sub, email |-> email, name |-> name]

\* the user information the calls are made with: a user, the user under
\* another email and name, another user with the email of the first, and
\* information without sub or without email
DbUserInfos ==
    {UserInfo("sub-1", "a@example.com", "A"),
     UserInfo("sub-1", "c@example.com", "A2"),
     UserInfo("sub-2", "a@example.com", "B"),
     UserInfo("", "a@example.com", "A"),
     UserInfo("sub-1", "", "A")}

\* the log rows the calls in flight are yet to write
LogsInFlight ==
    Cardinality({c \in DbCalls : /\ db_calls[c].op = "log_tool_usage"
                                 /\ db_calls[c].pc # "idle"})

\* upsert_user or log_tool_usage is awaited: with sub or email missing the
\* call returns at once, else it takes the time and connects
DbCall(c) ==
    /\ db_calls[c].pc = "idle"
    /\ \E op \in {"upsert_user", "log_tool_usage"}, user_info \in DbUserInfos :
          /\ op = "log_tool_usage" =>
                Len(tool_usage_logs) + LogsInFlight < MaxLogRows
          /\ db_calls' =
                IF user_info.sub = "" \/ user_info.email = "" THEN db_calls
                ELSE [db_calls EXCEPT ![c] =
                         [pc |-> "select", op |-> op, user_info |-> user_info,
                          exists |-> FALSE, at |-> now]]
    /\ UNCHANGED <<oauth_vars, wrapper_vars, task_user_info, ready, users,
                   tool_usage_logs, tool_calls>>

\* upsert_user: the SELECT and fetchone
UpsertUserSelect(c) ==
    /\ db_calls[c].pc = "select"
    /\ db_calls' = [db_calls EXCEPT
                       ![c].pc = "write",
                       ![c].exists = SelectUser(db_calls[c].user_info.sub)]
    /\ UNCHANGED <<oauth_vars, wrapper_vars, task_user_info, ready, users,
                   tool_usage_logs, tool_calls>>

\* upsert_user: the UPDATE or INSERT and the commit; log_tool_usage goes on
\* to its own INSERT whatever became of the write
UpsertUserWrite(c) ==
    /\ db_calls[c].pc = "write"
    /\ users' = WriteUser(db_calls[c].user_info, db_calls[c].exists,
                          db_calls[c].at)
    /\ db_calls' = [db_calls EXCEPT ![c] =
                       IF db_calls[c].op = "log_tool_usage"
                       THEN [db_calls[c] EXCEPT !.pc = "insert",
                                                !.exists = FALSE, !.at = 0]
                       ELSE IdleCall]
    /\ UNCHANGED <<oauth_vars, wrapper_vars, task_user_info, ready,
                   tool_usage_logs, tool_calls>>

\* log_tool_usage: the INSERT into tool_usage_logs on a connection of its
\* own, where foreign keys are not enforced, and the commit
LogToolUsageInsert(c) ==
    /\ db_calls[c].pc = "insert"
    /\ tool_usage_logs' =
          Append(tool_usage_logs,
                 [user_id |-> db_calls[c].user_info.sub,
                  user_email |-> db_calls[c].user_info.email,
                  tool_name |-> AsyncTool, success |-> TRUE])
    /\ db_calls' = [db_calls EXCEPT ![c] = IdleCall]
    /\ UNCHANGED <<oauth_vars, wrapper_vars, task_user_info, ready, users,
                   tool_calls>>

\* time passes between two steps of the calls
DbTick ==
    /\ now < MaxDbClock
    /\ now' = now + 1
    /\ UNCHANGED <<relay_vars, bearer, payload, header, principal, log_vars,
                   wrapper_vars>>

DbNext ==
    \/ \E c \in DbCalls : DbCall(c)
    \/ \E c \in DbCalls : UpsertUserSelect(c)
    \/ \E c \in DbCalls : UpsertUserWrite(c)
    \/ \E c \in DbCalls : LogToolUsageInsert(c)
    \/ DbTick

DbSpec == FlowInit /\ [][DbNext]_vars

(***************************************************************************)
(* The API key gate of the HTTP server: the keys of API_KEYS, the context  *)
(* get_auth_context makes of an Authorization header, and AuthWrapper,     *)
(* the ASGI application that stands before the wrapped application.        *)
(***************************************************************************)
\* str.lower() on the values AUTH_ENABLED takes here
Lower(s) == IF s \in {"TRUE", "True"} THEN "true" ELSE s

\* os.getenv("AUTH_ENABLED", "false").lower() == "true"
AuthEnabled == Lower(env.AUTH_ENABLED) = "true"

\* one comma separated item of API_KEYS: "user:key", or an item without colon
Pair(user_id, api_key) ==
    [colon |-> TRUE, user_id |-> user_id, api_key |-> api_key]
NoColon == [colon |-> FALSE, user_id |-> "", api_key |-> ""]

\* the loop of SimpleAuthProvider.__init__: api_keys[api_key] = user_id for
\* every item with a colon, a later item replacing an earlier one
ParsedKeys(pairs) ==
    LET keyed == {i \in DOMAIN pairs : pairs[i].colon}
        last(k) == CHOOSE i \in keyed :
                      /\ pairs[i].api_key = k
                      /\ \A j \in keyed : pairs[j].api_key = k => j <= i
    IN  [k \in {pairs[i].api_key : i \in keyed} |-> pairs[last(k)].user_id]

\* auth_provider.api_keys: the parsed keys, or the demo key when there are
\* none and authentication is enabled
api_keys ==
    IF DOMAIN ParsedKeys(env.API_KEYS) = {} /\ AuthEnabled
    THEN [k \in {"demo-api-key"} |-> "demo-user"]
    ELSE ParsedKeys(env.API_KEYS)

\* AuthContext(user_id, api_key), and None
AuthContext(user_id, api_key) ==
    [present |-> TRUE, user_id |-> user_id, api_key |-> api_key]
NoContext == [present |-> FALSE]

\* an Authorization header value: a scheme prefix and the rest; the header
\* that is absent and the header that is empty are both falsy
Authorization(scheme, rest) == [scheme |-> scheme, rest |-> rest]
NoAuthorization == Authorization("", "")

\* validate_api_key, accepting whatever key it is given
validate_api_key_any(api_key) ==
    IF api_key = "" THEN NoContext
    ELSE AuthContext("user1", api_key)
\* validate_api_key
validate_api_key(api_key) ==
    IF api_key = "" THEN NoContext
    ELSE IF api_key \in DOMAIN api_keys /\ api_keys[api_key] # ""
         THEN AuthContext(api_keys[api_key], api_key)
         ELSE NoContext

\* extract_api_key: what follows "Bearer ", or the header value itself
extract_api_key(authorization) ==
    IF authorization = NoAuthorization THEN ""
    ELSE IF authorization.scheme = "Bearer " THEN authorization.rest
    ELSE authorization.scheme \o authorization.rest

\* get_auth_context
get_auth_context(authorization) ==
    IF ~AuthEnabled THEN AuthContext("anonymous", "")
    ELSE IF extract_api_key(authorization) = "" THEN NoContext
    ELSE validate_api_key(extract_api_key(authorization))

\* the paths AuthWrapper answers itself
WellKnownPaths == {"/.well-known/oauth-authorization-server",
                   "/.well-known/oauth-protected-resource"}

\* the bytes of the authorization header in scope["headers"]: the header is
\* absent (b"" is taken), or holds text, or bytes that are not UTF-8
Bytes(text) == [utf8 |-> TRUE, text |-> text]
NotUtf8 == [utf8 |-> FALSE, text |-> NoAuthorization]

\* what AuthWrapper.__call__ does with scope: the status it sends (0 when
\* it sends none), whether it awaits the wrapped application, and whether
\* the call ends in an exception
Answer(status, app_called, raised) ==
    [status |-> status, app_called |-> app_called, raised |-> raised]

\* AuthWrapper.__call__
AuthWrapper(scope) ==
    IF scope.type # "http" THEN Answer(0, TRUE, FALSE)
    ELSE IF scope.path \in WellKnownPaths THEN Answer(200, FALSE, FALSE)
    ELSE IF ~AuthEnabled THEN Answer(0, TRUE, FALSE)
    ELSE IF ~scope.authorization.utf8 THEN Answer(0, FALSE, TRUE)
    ELSE IF ~get_auth_context(scope.authorization.text).present
         THEN Answer(401, FALSE, FALSE)
         ELSE Answer(0, TRUE, FALSE)

\* the header values a caller sends
Authorizations ==
    {NoAuthorization} \cup
    {Authorization(scheme, rest) :
        scheme \in {"", "Bearer ", "bearer "},
        rest \in {"key1", "key2", "k0", "demo-api-key", "nope"}} \cup
    {Authorization("Bearer ", "")}

\* the scopes the server calls AuthWrapper with
Scopes ==
    [type : {"http", "websocket"},
     path : WellKnownPaths \cup {"/sse"},
     authorization : {Bytes(a) : a \in Authorizations} \cup {NotUtf8}]

\* a request arrives: the server awaits AuthWrapper with its scope
Serve ==
    /\ \E scope \in Scopes :
          /\ request' = scope
          /\ answer' = AuthWrapper(scope)
    /\ UNCHANGED <<oauth_vars, log_vars>>

\* the values AUTH_ENABLED and API_KEYS are given
WrapperUniverse ==
    [FlowUniverse EXCEPT
        !.auth_enabled = {"", "false", "true", "TRUE"},
        !.api_keys = {<<>>,
                      <<Pair("user1", "key1")>>,
                      <<Pair("user1", "key1"), Pair("user2", "key2")>>,
                      <<Pair("user1", "key1"), Pair("user2", "key1")>>,
                      <<NoColon>>,
                      <<Pair("", "k0"), Pair("user1", "key1")>>}]

WrapperInit == InitOn(WrapperUniverse)
WrapperNext == Serve
WrapperSpec == WrapperInit /\ [][WrapperNext]_vars

(***************************************************************************)
(* Properties of the code exchange.                                        *)
(***************************************************************************)
AllTokenRequests == TokenRequests(Universe)
AllCallbackRequests == CallbackRequests(Universe)
AllAuthorizeRequests == AuthorizeRequests(Universe)

\* a /token request that is well formed: the grant type, a code, a verifier
WellFormed(req) ==
    /\ req.grant_type = "authorization_code"
    /\ req.code # ""
    /\ req.code_verifier # ""

\* the well-formed /token requests that present code and code_verifier
RequestsWith(code, code_verifier) ==
    {req \in AllTokenRequests :
        WellFormed(req) /\ req.code = code /\ req.code_verifier = code_verifier}

\* req presents the verifier, and the client if any, of the record of its code
Matches(req) ==
    /\ WellFormed(req)
    /\ LookupCode(req.code).present
    /\ verify_code_challenge(req.code_verifier,
                             LookupCode(req.code).code_challenge)
    /\ req.client_id \in {"", LookupCode(req.code).client_id}

Age(entry) == now - entry.created_at

\* the record of code is unused and inside the 10-minute window
Fresh(code) ==
    /\ LookupCode(code).present
    /\ ~LookupCode(code).used
    /\ Age(LookupCode(code)) <= CodeTTL

\* task t waits for the upstream inside token, for the code record id
ExchangingFor(t, id) ==
    tasks[t].handler = "token" /\ tasks[t].pc # "idle" /\ tasks[t].entry = id

\* this step takes task t past the checks of token
PassesChecks(t) == tasks[t].pc = "idle" /\ tasks'[t].handler = "token"

\* this step is the 200 answer of token to task t
AnswersToken(t) ==
    /\ tasks[t].handler = "token"
    /\ tasks[t].pc = "userinfo"
    /\ tokens_issued'[tasks[t].entry] = tokens_issued[tasks[t].entry] + 1

Rejected(req, error) ==
    /\ TokenOutcome(req).resp.status = 400
    /\ TokenOutcome(req).resp.error = error
    /\ TokenOutcome(req).codes = authorization_codes

C1_FirstCallPasses ==
    \A req \in AllTokenRequests :
        (Matches(req) /\ Fresh(req.code)) =>
            /\ TokenOutcome(req).resp.kind = "await"
            /\ TokenOutcome(req).codes[req.code].used

C1_UpstreamSuccessAnswersToken ==
    /\ TokenConfigResponse(TRUE).kind = "await"
    /\ TokenExchangeResponse("ok").kind = "await"
    /\ \A user_info \in UserInfos :
          /\ TokenUserinfoResponse("ok", user_info).status = 200
          /\ TokenUserinfoResponse("ok", user_info).token.present

C1_SecondCallRejected ==
    \A t \in Tasks :
        /\ PassesChecks(t) =>
              \A req \in RequestsWith(tasks'[t].req.code,
                                      tasks'[t].req.code_verifier) :
                  Rejected(req, "invalid_grant")'
        /\ (AnswersToken(t) /\
              authorization_codes'[tasks[t].req.code].id = tasks[t].entry) =>
              \A req \in RequestsWith(tasks[t].req.code,
                                      tasks[t].req.code_verifier) :
                  Rejected(req, "invalid_grant")'

\* C1: a code record created by callback is exchanged by /token exactly once.
\* The first /token request that presents the matching verifier (and no other
\* client_id than the stored one) inside the window passes the checks, marks
\* the record used and, the upstream exchange and userinfo fetch succeeding, is
\* answered 200 with a bearer token; the identical request repeated right
\* after the first has passed the checks, or right after its 200 answer while
\* the record is the one it exchanged, is answered 400 invalid_grant.
C1_ExchangedExactlyOnce ==
    /\ [](C1_FirstCallPasses /\ C1_UpstreamSuccessAnswersToken)
    /\ [][C1_SecondCallRejected]_vars

\* a first request got its token for the record of c1, and the same request
\* is now rejected
C1_Witness ==
    /\ LookupCode("c1").present
    /\ tokens_issued[LookupCode("c1").id] = 1
    /\ Age(LookupCode("c1")) <= CodeTTL
    /\ \E req \in AllTokenRequests :
          Matches(req) /\ Rejected(req, "invalid_grant")

\* C2: a code with used=true is never resurrected: whatever operation runs,
\* the record of a used code stays present and used.
C2_NeverResurrected ==
    [][\A c \in Codes :
          (authorization_codes[c].present /\ authorization_codes[c].used) =>
              (authorization_codes'[c].present /\ authorization_codes'[c].used)
      ]_vars

C3_AtMostOnePass ==
    \A id \in 1..MaxCodeObjs :
        tokens_issued[id]
          + Cardinality({t \in Tasks : ExchangingFor(t, id)}) <= 1

C3_CheckAndMarkAtomic ==
    /\ \A t \in Tasks :
          PassesChecks(t) =>
              /\ Fresh(tasks'[t].req.code)
              /\ authorization_codes[tasks'[t].req.code].id = tasks'[t].entry
              /\ authorization_codes' =
                    [authorization_codes EXCEPT
                        ![tasks'[t].req.code] = [@ EXCEPT !.used = TRUE]]
    /\ \A c \in Codes :
          (/\ authorization_codes[c].present
           /\ authorization_codes[c].used
           /\ authorization_codes'[c].present
           /\ authorization_codes'[c].id = authorization_codes[c].id) =>
              authorization_codes'[c].used

\* C3: of the concurrent /token requests for one valid code record at most
\* one passes the used check and performs the upstream exchange, so at most
\* one bearer token is issued for the record: the passes in progress and the
\* tokens issued for a record never number more than one, a request passes
\* only on an unused record and marks it used in the same step, and no step
\* makes that record unused again.
C3_SingleExchangePerRecord ==
    /\ []C3_AtMostOnePass
    /\ [][C3_CheckAndMarkAtomic]_vars

\* one request is past the checks for the record of c1 while the other
\* connection is free, and a second matching request is rejected
C3_Witness ==
    /\ LookupCode("c1").present
    /\ \E t \in Tasks : ExchangingFor(t, LookupCode("c1").id)
    /\ \E t \in Tasks : tasks[t].pc = "idle"
    /\ \E req \in AllTokenRequests :
          Matches(req) /\ Rejected(req, "invalid_grant")

\* /token marked the record of code used and its upstream exchange failed:
\* the record is used, no token was issued for it and no request is exchanging
FailedExchange(code) ==
    /\ LookupCode(code).present
    /\ LookupCode(code).used
    /\ tokens_issued[LookupCode(code).id] = 0
    /\ \A t \in Tasks : ~ExchangingFor(t, LookupCode(code).id)

\* C4: reuse of a code fails even if the upstream exchange failed: once
\* /token has marked a code used and the exchange has failed, every later
\* well-formed /token request with that code is answered invalid_grant.
C4_ReuseFailsAfterUpstreamFailure ==
    [][\A c \in Codes :
          FailedExchange(c) =>
              \A req \in AllTokenRequests :
                  (WellFormed(req) /\ req.code = c) =>
                      Rejected(req, "invalid_grant")'
      ]_vars

\* req presents a verifier that does not hash to the stored challenge
WrongVerifier(req) ==
    /\ WellFormed(req)
    /\ LookupCode(req.code).present
    /\ ~verify_code_challenge(req.code_verifier,
                              LookupCode(req.code).code_challenge)

\* C5 as stated: /token with a verifier that does not hash to the stored
\* challenge is answered invalid_grant whatever the used flag, the age and the
\* client_id of the request.
C5_WrongVerifierInvalidGrant ==
    \A req \in AllTokenRequests :
        WrongVerifier(req) => Rejected(req, "invalid_grant")

\* C5 as amended: such a request is always rejected with 400 and changes
\* nothing; the error is invalid_grant, except that on an unused code a
\* non-empty client_id other than the stored one is answered invalid_client.
C5_WrongVerifierRejected ==
    \A req \in AllTokenRequests :
        WrongVerifier(req) =>
            IF ~LookupCode(req.code).used
                 /\ req.client_id \notin {"", LookupCode(req.code).client_id}
            THEN Rejected(req, "invalid_client")
            ELSE Rejected(req, "invalid_grant")

\* a fresh record, which only the verifier check protects, and a request with
\* the wrong verifier for it
C5_Witness ==
    /\ Fresh("c1")
    /\ \E req \in AllTokenRequests :
          /\ WrongVerifier(req)
          /\ req.client_id = LookupCode("c1").client_id
          /\ TokenOutcome(req).resp.description = "Invalid code_verifier"

\* C6: a code record older than the 10-minute window is rejected by /token
\* even if unused and otherwise valid: the request is answered 400, never
\* reaches the upstream exchange, and the record is not marked used.
C6_ExpiredCodeRejected ==
    \A req \in AllTokenRequests :
        (LookupCode(req.code).present /\ Age(LookupCode(req.code)) > CodeTTL) =>
            /\ TokenOutcome(req).resp.status = 400
            /\ TokenOutcome(req).resp.kind = "json"
            /\ ~TokenOutcome(req).resp.token.present
            /\ TokenOutcome(req).codes = authorization_codes

\* an unused record beyond the window, and a matching request for it
C6_Witness ==
    /\ LookupCode("c1").present
    /\ ~LookupCode("c1").used
    /\ Age(LookupCode("c1")) > CodeTTL
    /\ \E req \in AllTokenRequests :
          /\ Matches(req)
          /\ TokenOutcome(req).resp.description = "Authorization code expired"

\* C7: a pending authorization older than the TTL (10 minutes) is treated as
\* absent: a callback whose state matches only such an entry does not take
\* the relay branch and creates no code record.
C7_StalePendingIgnored ==
    \A req \in AllCallbackRequests :
        (/\ req.code # ""
         /\ KnownState(req.state)
         /\ Age(oauth_state_storage[req.state]) > CodeTTL) =>
            /\ CallbackOutcome(req).branch # "relay"
            /\ CallbackOutcome(req).codes = authorization_codes

C8_ConsumeOnRead ==
    \A req \in AllCallbackRequests :
        req.code # "" =>
            IF KnownState(req.state)
            THEN /\ CallbackOutcome(req).branch = "relay"
                 /\ CallbackOutcome(req).storage =
                       [oauth_state_storage EXCEPT ![req.state] = NoEntry]
                 /\ \A c \in Codes \ {req.code} :
                       CallbackOutcome(req).codes[c] = authorization_codes[c]
                 /\ CallbackOutcome(req).codes[req.code].present
                 /\ ~CallbackOutcome(req).codes[req.code].used
                 /\ CallbackOutcome(req).codes[req.code].id = code_objs + 1
            ELSE /\ CallbackOutcome(req).branch = "direct"
                 /\ CallbackOutcome(req).storage = oauth_state_storage
                 /\ CallbackOutcome(req).codes = authorization_codes

C8_ConsumedOnce ==
    /\ \A s \in States :
          (KnownState(s) /\ ~KnownState(s)') =>
              /\ code_objs' = code_objs + 1
              /\ \E c \in Codes :
                    /\ authorization_codes'[c].present
                    /\ authorization_codes'[c].id = code_objs'
                    /\ ~authorization_codes'[c].used
              /\ \A req \in AllCallbackRequests :
                    (req.code # "" /\ req.state = s) =>
                        (CallbackOutcome(req).branch = "direct")'
    /\ code_objs' # code_objs =>
          \E s \in States : KnownState(s) /\ ~KnownState(s)'
    /\ \A s \in States :
          (~KnownState(s) /\ KnownState(s)') =>
              \E t \in Tasks : \E req \in AllAuthorizeRequests :
                  req.state = s /\ AuthorizeReq(t, req)

\* C8: a pending authorization is consumed exactly once.  A callback with a
\* code and a recorded state takes the relay branch, deletes the entry and
\* creates one code record, all in one step, so of several callbacks with that
\* state one only takes the relay branch: the same callback repeated takes the
\* direct-exchange branch and creates no code record, every code record
\* created costs one pending entry, and only authorize records the state anew.
C8_PendingConsumedExactlyOnce ==
    /\ []C8_ConsumeOnRead
    /\ [][C8_ConsumedOnce]_vars

\* the entry of s1 was consumed into a code record, and a later callback with
\* s1 is on the direct-exchange branch
C8_Witness ==
    /\ LookupCode("c1").present
    /\ ~KnownState("s1")
    /\ \E t \in Tasks : tasks[t].handler = "callback" /\ tasks[t].pc # "idle"
    /\ \A req \in AllCallbackRequests :
          req.code # "" => CallbackOutcome(req).branch = "direct"

\* the only client id the relay is configured with
FirstPartyClient == GoogleClientId

\* client_id is registered with redirect_uri among its redirect URIs
RegisteredWith(client_id, redirect_uri) ==
    /\ client_id \in DOMAIN registered_clients
    /\ registered_clients[client_id].present
    /\ redirect_uri \in registered_clients[client_id].redirect_uris

\* C9: authorize records a pending authorization and goes on to the upstream
\* only for a client_id registered with the given redirect_uri or for the
\* configured first-party client; for every other client_id it answers an
\* error and records nothing.
C9_OnlyKnownClientsAuthorize ==
    [][\A t \in Tasks : \A req \in AllAuthorizeRequests :
          (/\ AuthorizeReq(t, req)
           /\ ~RegisteredWith(req.client_id, req.redirect_uri)
           /\ req.client_id # FirstPartyClient) =>
              /\ AuthorizeOutcome(req).resp.kind = "json"
              /\ AuthorizeOutcome(req).resp.status >= 400
              /\ oauth_state_storage' = oauth_state_storage
      ]_vars

\* req names a registered client and a redirect_uri it has not registered
UnregisteredUri(req) ==
    /\ req.client_id \in DOMAIN registered_clients
    /\ registered_clients[req.client_id].present
    /\ req.redirect_uri \notin registered_clients[req.client_id].redirect_uris

\* C10: /authorize for a registered client with a redirect_uri outside the
\* client's redirect_uris is answered with an error before any upstream
\* interaction: 400 invalid_request on a relay that has its upstream
\* credentials (500 on one that has not), no wait for a discovery fetch, no
\* upstream redirect, and the pending authorizations unchanged.
C10_BadRedirectUriRejectedFirst ==
    \A req \in AllAuthorizeRequests :
        UnregisteredUri(req) =>
            /\ AuthorizeOutcome(req).resp.kind = "json"
            /\ AuthorizeOutcome(req).resp.status =
                  IF env.GOOGLE_CREDENTIALS THEN 400 ELSE 500
            /\ env.GOOGLE_CREDENTIALS =>
                  /\ AuthorizeOutcome(req).resp.error = "invalid_request"
                  /\ AuthorizeOutcome(req).resp.description =
                        "Invalid redirect_uri"
            /\ AuthorizeOutcome(req).storage = oauth_state_storage

\* a configured relay with an empty cache, a registered client, and a request
\* with a redirect_uri the client has not registered
C10_Witness ==
    /\ env.GOOGLE_CREDENTIALS
    /\ ~CacheHit
    /\ \E req \in AllAuthorizeRequests :
          /\ UnregisteredUri(req)
          /\ StoresState(req.state, req.code_challenge)
          /\ AuthorizeOutcome(req).resp.status = 400

(***************************************************************************)
(* Properties of the relay branch of callback.                             *)
(***************************************************************************)
\* the pending authorization a callback request finds
PendingOf(req) == oauth_state_storage[req.state]

\* req carries a code and a state that is recorded
Relayed(req) == req.code # "" /\ KnownState(req.state)

\* C11: a callback that matches the pending authorization of a registered
\* client is answered with a 302 redirect to the redirect_uri the client gave
\* to authorize, with the upstream code and the state as query parameters,
\* whichever of its registered redirect URIs the client gave.
C11_RelayRedirectsToClient ==
    \A req \in AllCallbackRequests :
        (Relayed(req) /\ IsDynamic(PendingOf(req).client_id)) =>
            /\ CallbackOutcome(req).resp.kind = "redirect"
            /\ CallbackOutcome(req).resp.status = 302
            /\ CallbackOutcome(req).resp.location = PendingOf(req).redirect_uri
            /\ CallbackOutcome(req).resp.params =
                  [NoParams EXCEPT !.code = req.code, !.state = req.state]

\* the PKCE challenge, its method and the client of a pending entry or of a
\* code record
Binding(entry) ==
    <<entry.code_challenge, entry.code_challenge_method, entry.client_id>>

C12_CarriesPending ==
    \A req \in AllCallbackRequests :
        Relayed(req) =>
            /\ CallbackOutcome(req).codes[req.code].present
            /\ CallbackOutcome(req).codes[req.code].code = req.code
            /\ Binding(CallbackOutcome(req).codes[req.code]) =
                  Binding(PendingOf(req))
            /\ ~CallbackOutcome(req).codes[req.code].used

\* a pending entry is written by an authorize call with that state only, and
\* holds what the call supplied
C12_PendingFromAuthorize ==
    \A s \in States :
        (/\ oauth_state_storage'[s].present
         /\ oauth_state_storage'[s] # oauth_state_storage[s]) =>
            \E t \in Tasks : \E req \in AllAuthorizeRequests :
                /\ AuthorizeReq(t, req)
                /\ req.state = s
                /\ Binding(oauth_state_storage'[s]) =
                      <<req.code_challenge, req.code_challenge_method,
                        req.client_id>>

\* a code record is created from a pending entry the same step consumes, and
\* keeps its binding for as long as it exists
C12_RecordFromPending ==
    \A c \in Codes :
        /\ (/\ authorization_codes'[c].present
            /\ authorization_codes[c].present
            /\ authorization_codes'[c].id = authorization_codes[c].id) =>
               /\ Binding(authorization_codes'[c]) =
                     Binding(authorization_codes[c])
               /\ authorization_codes'[c].code = c
        /\ (/\ authorization_codes'[c].present
            /\ authorization_codes[c].present =>
                  authorization_codes'[c].id # authorization_codes[c].id) =>
               /\ ~authorization_codes'[c].used
               /\ authorization_codes'[c].code = c
               /\ \E s \in States :
                     /\ KnownState(s)
                     /\ ~KnownState(s)'
                     /\ Binding(authorization_codes'[c]) =
                           Binding(oauth_state_storage[s])

\* C12: every code record is keyed by the upstream code, carries the
\* code_challenge, the code_challenge_method and the client_id of the pending
\* authorization the callback consumed and is created unused; a pending entry
\* holds what an authorize call with that state supplied, so no record ever
\* holds a challenge or a client_id that no such call supplied.
C12_RecordCarriesPending ==
    /\ []C12_CarriesPending
    /\ [][C12_PendingFromAuthorize /\ C12_RecordFromPending]_vars

\* a record made from the authorization of the registered client
C12_Witness ==
    /\ LookupCode("c1").present
    /\ ~LookupCode("c1").used
    /\ Binding(LookupCode("c1")) = <<"ch1", "S256", DynamicClient>>
    /\ ~KnownState("s1")

\* the request with another client_id
WithClient(req, client_id) == [req EXCEPT !.client_id = client_id]

\* C13: a well-formed /token request for an unused code that carries a
\* non-empty client_id other than the one stored with the code is answered
\* 400 invalid_client, whatever its verifier and the age of the code, gets no
\* token and leaves the code unused; a request without client_id skips the
\* check: it is answered as the request with the stored client_id is.
C13_ClientMismatchRejected ==
    \A req \in AllTokenRequests :
        (/\ WellFormed(req)
         /\ LookupCode(req.code).present
         /\ ~LookupCode(req.code).used) =>
            /\ req.client_id \notin {"", LookupCode(req.code).client_id} =>
                  /\ Rejected(req, "invalid_client")
                  /\ ~TokenOutcome(req).resp.token.present
                  /\ ~TokenOutcome(req).codes[req.code].used
            /\ req.client_id = "" =>
                  /\ TokenOutcome(req).resp.error # "invalid_client"
                  /\ TokenOutcome(req) =
                        TokenOutcome(WithClient(req,
                                       LookupCode(req.code).client_id))

\* a fresh code of one client and a request with the right verifier that
\* names another client
C13_Witness ==
    /\ Fresh("c1")
    /\ \E req \in AllTokenRequests :
          /\ WellFormed(req)
          /\ verify_code_challenge(req.code_verifier,
                                   LookupCode("c1").code_challenge)
          /\ req.client_id \notin {"", LookupCode("c1").client_id}
          /\ Rejected(req, "invalid_client")

(***************************************************************************)
(* Properties of the whole flow.                                           *)
(***************************************************************************)
FlowAuthorizeRequests == AuthorizeRequests(FlowUniverse)
FlowCallbackRequests == CallbackRequests(FlowUniverse)
FlowTokenRequests == TokenRequests(FlowUniverse)

\* authorize of a registered client with its redirect URI, a state and an
\* S256 challenge is answered, once the discovery document is there, with a
\* redirect to the upstream authorization endpoint, and is recorded
C14_AuthorizeRedirectsUpstream ==
    \A req \in FlowAuthorizeRequests :
        (/\ RegisteredWith(req.client_id, req.redirect_uri)
         /\ req.code_challenge_method = "S256") =>
            /\ AuthorizeOutcome(req).resp \in {Await, UpstreamRedirect(req)}
            /\ AuthorizeConfigResponse(req, TRUE) = UpstreamRedirect(req)
            /\ UpstreamRedirect(req).kind = "redirect"
            /\ UpstreamRedirect(req).location = GoogleAuthEndpoint
            /\ AuthorizeOutcome(req).storage[req.state] = PendingEntry(req)

\* the callback with that state is answered with a redirect to the URI of
\* the client, with the code and the state
C14_CallbackRedirectsToClient ==
    \A req \in FlowCallbackRequests :
        Relayed(req) =>
            /\ CallbackOutcome(req).resp.kind = "redirect"
            /\ CallbackOutcome(req).resp.location = PendingOf(req).redirect_uri
            /\ CallbackOutcome(req).resp.params.code = req.code
            /\ CallbackOutcome(req).resp.params.state = req.state

\* token with that code and the matching verifier is answered, the upstream
\* calls succeeding, 200 with a token that validate_jwt_token accepts
C14_TokenAnswersBearer ==
    \A req \in FlowTokenRequests :
        (Matches(req) /\ Fresh(req.code)) =>
            /\ TokenOutcome(req).resp.kind = "await"
            /\ TokenConfigResponse(TRUE).kind = "await"
            /\ TokenExchangeResponse("ok").kind = "await"
            /\ \A user_info \in UserInfos :
                  /\ TokenUserinfoResponse("ok", user_info).status = 200
                  /\ validate_jwt_token(
                        TokenUserinfoResponse("ok", user_info).token,
                        now).present

\* C14: end to end, for a client registered with one redirect URI: authorize
\* with that client, that URI, a state and an S256 challenge is answered with
\* a redirect to the upstream authorization endpoint; the callback with a
\* code and that state with a redirect to the client's URI carrying that code
\* and state; token with that code and the matching verifier, the upstream
\* exchange and userinfo fetch succeeding, with 200 and a bearer token that
\* validate accepts.
C14_EndToEndFlow ==
    /\ C14_AuthorizeRedirectsUpstream
    /\ C14_CallbackRedirectsToClient
    /\ C14_TokenAnswersBearer

(***************************************************************************)
(* Properties of the direct branch of callback.                            *)
(***************************************************************************)
\* task t is inside callback, at position pc
InCallback(t, pc) == tasks[t].handler = "callback" /\ tasks[t].pc = pc

\* C15: a callback with a code and a state that is empty or not recorded
\* exchanges the code with the upstream at once and answers with a page that
\* holds a bearer token; the maps of pending authorizations, code records and
\* registrations are as they were; and whenever an upstream call of this path
\* fails, the answer is a 400.
C15_DirectExchange ==
    /\ \A req \in AllCallbackRequests :
          (req.code # "" /\ ~KnownState(req.state)) =>
              /\ CallbackOutcome(req).branch = "direct"
              /\ CallbackOutcome(req).storage = oauth_state_storage
              /\ CallbackOutcome(req).codes = authorization_codes
    /\ \A t \in Tasks :
          /\ InCallback(t, "fetch_config") =>
                /\ CallbackConfigResponse(TRUE).kind = "await"
                /\ CallbackConfigResponse(FALSE).kind = "json"
                /\ CallbackConfigResponse(FALSE).status = 400
          /\ InCallback(t, "exchange") =>
                /\ CallbackExchangeResponse(TRUE).kind = "await"
                /\ CallbackExchangeResponse(FALSE).status = 400
          /\ InCallback(t, "userinfo") =>
                \A user_info \in UserInfos :
                    /\ CallbackUserinfoResponse(TRUE, user_info).status = 200
                    /\ CallbackUserinfoResponse(TRUE, user_info).token.present
                    /\ CallbackUserinfoResponse(FALSE, user_info).status = 400

(***************************************************************************)
(* Properties of the token codec.                                          *)
(***************************************************************************)
\* the times a token can be validated at, once it is issued
TimesFrom(t) == {u \in 0..MaxCodecClock : u >= t}

C16_AcceptedUntilExpiry ==
    bearer.present =>
        /\ bearer.exp = bearer.iat + JWT_EXPIRY_HOURS * 60
        /\ \A t \in TimesFrom(bearer.iat) :
              /\ t < bearer.exp =>
                    /\ validate_jwt_token(bearer, t).present
                    /\ validate_jwt_token(bearer, t).sub = bearer.sub
              /\ t > bearer.exp =>
                    /\ ~validate_jwt_token(bearer, t).present
                    /\ validate_jwt_token(bearer, t).reason = "expired"

\* expires_in, in seconds, is the life of the token /token answers with
C16_ExpiresIn ==
    \A user_info \in UserInfos :
        /\ TokenUserinfoResponse("ok", user_info).expires_in =
              JWT_EXPIRY_HOURS * 3600
        /\ TokenUserinfoResponse("ok", user_info).expires_in =
              60 * (TokenUserinfoResponse("ok", user_info).token.exp
                      - TokenUserinfoResponse("ok", user_info).token.iat)

\* what a validation returns, by the time it is made at
C16_ValidatedByClock ==
    payload' # payload =>
        /\ now < bearer.exp => payload'.present
        /\ now > bearer.exp =>
              ~payload'.present /\ payload'.reason = "expired"

\* C16: a token the relay issues is accepted by validate before expires_at
\* and rejected as expired after it, where expires_at is issued_at plus the
\* TTL of one hour, and the expires_in that /token answers is that TTL in
\* seconds.
C16_TokenLifetime ==
    /\ [](C16_AcceptedUntilExpiry /\ C16_ExpiresIn)
    /\ [][C16_ValidatedByClock]_vars

\* a token validated after its expiry
C16_Witness ==
    /\ bearer.present
    /\ now > bearer.exp
    /\ payload = validate_jwt_token(bearer, now)
    /\ payload.reason = "expired"

\* C17: every bearer token issued, by /token or by the direct branch of
\* callback, carries a subject and an email: when the userinfo answer of the
\* upstream lacks sub or email, no token is issued.
C17_TokenCarriesSubjectAndEmail ==
    bearer.present => (bearer.sub # "" /\ bearer.email # "")

(***************************************************************************)
(* Properties of the PKCE utility.                                         *)
(***************************************************************************)
PkceVerifiers == FlowUniverse.verifiers
PkceChallenges == FlowUniverse.challenges

\* over the verifiers and challenges of the model: a verifier verifies
\* against its own challenge, and against no other; no other verifier
\* verifies against it
C18_VerifyIsExact ==
    \A v \in PkceVerifiers :
        /\ verify_code_challenge(v, generate_code_challenge(v))
        /\ \A w \in PkceVerifiers \ {v} :
              ~verify_code_challenge(w, generate_code_challenge(v))
        /\ \A c \in PkceChallenges \ {generate_code_challenge(v)} :
              ~verify_code_challenge(v, c)

\* at /token: on a fresh code, a request of the right client passes exactly
\* when its verifier is the one the stored challenge derives from
C18_TokenPassesOnMatch ==
    \A req \in FlowTokenRequests :
        (/\ Fresh(req.code)
         /\ req.client_id \in {"", LookupCode(req.code).client_id}) =>
            (TokenOutcome(req).resp.kind = "await"
                <=> generate_code_challenge(req.code_verifier) =
                       LookupCode(req.code).code_challenge)

C19_OnlyS256GetsToken ==
    \A c \in Codes :
        (/\ authorization_codes[c].present
         /\ authorization_codes[c].code_challenge_method # "S256") =>
            tokens_issued[authorization_codes[c].id] = 0

(***************************************************************************)
(* Properties of the discovery cache.                                      *)
(***************************************************************************)
\* the discovery fetch that task t waits for ends in this step
FetchEnds(t) == tasks[t].pc = "fetch_config" /\ tasks'[t].pc # "fetch_config"

\* this step takes a request of task t to an upstream call
StartsUpstream(t) == tasks[t].pc = "idle" /\ tasks'[t].pc # "idle"

C20_FetchOutcome ==
    /\ CacheAfterFetch(TRUE) = GoogleConfig
    /\ CacheAfterFetch(FALSE) = google_config_cache
    /\ CallbackConfigResponse(FALSE).status = 500
    /\ TokenConfigResponse(FALSE).status = 500
    /\ \A req \in AllAuthorizeRequests :
          AuthorizeConfigResponse(req, FALSE).status = 500

C20_CacheStep ==
    /\ google_config_cache' # google_config_cache =>
          /\ google_config_cache' = GoogleConfig
          /\ \E t \in Tasks : FetchEnds(t)
    /\ \A t \in Tasks :
          /\ (FetchEnds(t) /\ google_config_cache' = NoConfig) =>
                tasks'[t] = IdleTask
          /\ StartsUpstream(t) =>
                (tasks'[t].pc = "fetch_config" <=> ~CacheHit)

\* C20: the discovery cache is filled by a successful fetch only: when a
\* fetch fails the cache stays as it was, empty, and the failure ends the
\* request that waited for it with a 500; while the cache is empty the next
\* request that needs the document starts a fetch of its own, which fills the
\* cache when it succeeds.
C20_CacheOnlyOnSuccess ==
    /\ []C20_FetchOutcome
    /\ [][C20_CacheStep]_vars

\* after an authorize whose fetch failed (its pending entry is there, the
\* cache is empty, no authorize is waiting) another request waits for a fetch
C20_Witness ==
    /\ ~CacheHit
    /\ KnownState("s1")
    /\ \A t \in Tasks : tasks[t].handler # "authorize"
    /\ \E t \in Tasks : tasks[t].pc = "fetch_config"

\* the discovery fetch of task t ends with the document: a callback or a
\* token request goes on to its token exchange
FetchSucceeds(t) ==
    /\ tasks[t].pc = "fetch_config"
    /\ tasks[t].handler \in {"callback", "token"}
    /\ tasks'[t].pc = "exchange"

\* C21: the discovery document is fetched once per process: a discovery fetch
\* ends with the document only while the cache is empty, so that at most one
\* fetch completes successfully and no fetch replaces a cached document.
C21_FetchedOnce ==
    [][\A t \in Tasks : FetchSucceeds(t) => ~CacheHit]_vars

(***************************************************************************)
(* Properties of the upstream redirect.                                    *)
(***************************************************************************)
\* task t is an authorize request that waits for the discovery document
InAuthorize(t) ==
    tasks[t].handler = "authorize" /\ tasks[t].pc = "fetch_config"

\* resp sends the browser upstream with the relay's own redirect URI, not the
\* one of the request req, and with the state of req
UpstreamFor(resp, req) ==
    /\ resp.kind = "redirect"
    /\ resp.location = GoogleAuthEndpoint
    /\ resp.params.client_id = GoogleClientId
    /\ resp.params.redirect_uri = env.OAUTH_REDIRECT_URI
    /\ resp.params.redirect_uri # req.redirect_uri
    /\ resp.params.state = req.state

\* C22: every upstream redirect that authorize builds, at once on a filled
\* cache or after the discovery fetch it waited for, has the relay's own
\* configured redirect URI as redirect_uri, never the redirect_uri of the
\* client, whether the client is dynamic or not, and the state of the
\* request unchanged.
C22_UpstreamRedirectUri ==
    \A req \in AllAuthorizeRequests :
        /\ AuthorizeOutcome(req).resp.kind = "redirect" =>
              UpstreamFor(AuthorizeOutcome(req).resp, req)
        /\ \A t \in Tasks :
              (InAuthorize(t) /\ tasks[t].req = AuthorizeLocals(req)) =>
                  UpstreamFor(AuthorizeConfigResponse(tasks[t].req, TRUE), req)

\* an authorize request of a registered dynamic client, recorded with the
\* URI of the client, waits for the document while an authorize request of a
\* client that is not dynamic would be redirected at once
C22_Witness ==
    /\ env.OAUTH_REDIRECT_URI = RelayCallbackUri
    /\ oauth_state_storage["s1"].present
    /\ oauth_state_storage["s1"].client_id = DynamicClient
    /\ oauth_state_storage["s1"].redirect_uri = LocalUri
    /\ \E t \in Tasks : InAuthorize(t) /\ tasks[t].req.state = "s1"

(***************************************************************************)
(* Properties of the client registry.                                      *)
(***************************************************************************)
AllRegisterRequests == RegisterRequests(Universe)

\* a registration request whose body is read
Posted(req) == req.method = "POST" /\ ~req.malformed

\* the registry clients is the registry with one entry more, under id
AddsOnly(clients, id) ==
    /\ ~registered_clients[id].present
    /\ clients[id].present
    /\ \A c \in DynamicIds : c # id => clients[c] = registered_clients[c]

C23_RegisterOutcome ==
    \A req \in AllRegisterRequests, id \in FreshClientIds :
        Posted(req) =>
            /\ req.redirect_uris = {} =>
                  /\ RegisterOutcome(req, id).resp.status = 400
                  /\ RegisterOutcome(req, id).resp.error = "invalid_redirect_uri"
                  /\ RegisterOutcome(req, id).clients = registered_clients
            /\ (/\ req.redirect_uris # {}
                /\ "authorization_code" \notin req.grant_types) =>
                  /\ RegisterOutcome(req, id).resp.status = 400
                  /\ RegisterOutcome(req, id).resp.error =
                        "invalid_client_metadata"
                  /\ RegisterOutcome(req, id).clients = registered_clients
            /\ (/\ req.redirect_uris # {}
                /\ "authorization_code" \in req.grant_types) =>
                  /\ RegisterOutcome(req, id).resp.status = 201
                  /\ RegisterOutcome(req, id).resp.error = ""
                  /\ RegisterOutcome(req, id).resp.params.client_id = id
                  /\ AddsOnly(RegisterOutcome(req, id).clients, id)
                  /\ RegisterOutcome(req, id).clients[id].client_id = id
                  /\ RegisterOutcome(req, id).clients[id].redirect_uris =
                        req.redirect_uris
                  /\ RegisterOutcome(req, id).clients[id].grant_types =
                        req.grant_types

\* a step that changes the registry adds one entry, under an id that was
\* not there, for a request with redirect URIs and the authorization_code
\* grant
C23_RegisterStep ==
    registered_clients' # registered_clients =>
        \E id \in DynamicIds :
            /\ AddsOnly(registered_clients', id)
            /\ registered_clients'[id].client_id = id
            /\ registered_clients'[id].redirect_uris # {}
            /\ "authorization_code" \in registered_clients'[id].grant_types

\* C23: register with no redirect_uris is answered 400 invalid_redirect_uri,
\* register without the authorization_code grant 400 invalid_client_metadata,
\* and both leave the registry as it was; a register that passes adds exactly
\* one entry, under a client_id that was not present, and answers 201 with it.
C23_RegisterValidates ==
    /\ []C23_RegisterOutcome
    /\ [][C23_RegisterStep]_vars

\* a registration has been added and the cases of the claim are in the
\* universe of requests: no URI, no authorization_code grant, both right
C23_Witness ==
    /\ registered_clients[DynamicClient].present
    /\ registered_clients[DynamicClient].redirect_uris = {LocalUri, RemoteUri}
    /\ \E req \in AllRegisterRequests :
          Posted(req) /\ req.redirect_uris = {}
    /\ \E req \in AllRegisterRequests :
          /\ Posted(req)
          /\ req.redirect_uris # {}
          /\ "authorization_code" \notin req.grant_types

Accepted(token) == validate_jwt_token(token, now).present

\* the headers that can be made now: from the token of the caller and from
\* the token of the operator
AllHeaders == Headers(bearer) \cup Headers(env.MCP_AUTH_TOKEN)

\* the gate, asked now with a header that is there
C25_GateOutcome ==
    \A h \in AllHeaders \ {NoHeader} :
        /\ validate_request(h, now).present =>
              /\ h.scheme = "Bearer "
              /\ Accepted(h.token)
              /\ validate_request(h, now) = validate_jwt_token(h.token, now)
        /\ h.scheme # "Bearer " => validate_request(h, now) = NoPrincipal

\* the answer the gate gave to the last request with a header
C25_GateAnswer ==
    header # NoHeader =>
        /\ principal.present =>
              /\ header.scheme = "Bearer "
              /\ header.token.present
              /\ header.token.secret = env.JWT_SECRET_KEY
              /\ principal.sub = header.token.sub
              /\ principal.email = header.token.email
              /\ principal.exp = header.token.exp
        /\ header.scheme # "Bearer " => principal = NoPrincipal

\* C25: for a header that is not empty the gate returns a principal only if
\* the header is "Bearer " followed by a token that validate accepts, and
\* then what validate returns for that token; a header without the prefix
\* "Bearer ", a bare token among them, is rejected even if the token is
\* valid and even if the environment token is set and valid.
C25_BearerPrefixRequired ==
    C25_GateOutcome /\ C25_GateAnswer

\* the gate has rejected a bare token that validate accepts while a valid
\* environment token is set
C25_Witness ==
    /\ header = Header("", bearer)
    /\ Accepted(bearer)
    /\ Accepted(env.MCP_AUTH_TOKEN)
    /\ principal = NoPrincipal

\* the gate, asked now: without a header it answers what validate answers
\* for the environment token, with a header what the header alone yields
C26_GateOutcome ==
    /\ env.MCP_AUTH_TOKEN.present =>
          validate_request(NoHeader, now) =
              validate_jwt_token(env.MCP_AUTH_TOKEN, now)
    /\ ~Accepted(env.MCP_AUTH_TOKEN) => ~validate_request(NoHeader, now).present
    /\ \A h \in AllHeaders \ {NoHeader} :
          validate_request(h, now) =
              IF h.scheme = "Bearer " /\ h.token.present
              THEN validate_jwt_token(h.token, now)
              ELSE NoPrincipal

\* the answer the gate gave to the last request: the principal of the
\* environment token only if the request had no header
C26_GateAnswer ==
    /\ (header = NoHeader /\ principal.present) =>
          /\ env.MCP_AUTH_TOKEN.present
          /\ env.MCP_AUTH_TOKEN.secret = env.JWT_SECRET_KEY
          /\ principal.sub = env.MCP_AUTH_TOKEN.sub
          /\ principal.exp = env.MCP_AUTH_TOKEN.exp
    /\ (header # NoHeader /\ principal.present) =>
          /\ principal.sub = header.token.sub
          /\ principal.exp = header.token.exp
          /\ env.MCP_AUTH_TOKEN.present =>
                principal.sub # env.MCP_AUTH_TOKEN.sub

\* C26: the environment token is used only when the request has no
\* Authorization header: for an absent or empty header the gate answers
\* validate(environment token), unauthenticated when the variable is unset
\* or its token is invalid or expired; for a header that is not empty the
\* answer is that of the header alone, whatever the environment token is.
C26_EnvTokenOnlyWithoutHeader ==
    C26_GateOutcome /\ C26_GateAnswer

\* a caller that holds a bearer token sent no header and was let in as the
\* operator
C26_Witness ==
    /\ header = NoHeader
    /\ bearer.present
    /\ principal.present
    /\ principal = validate_jwt_token(env.MCP_AUTH_TOKEN, now)

(***************************************************************************)
(* Properties of the error answers.                                        *)
(***************************************************************************)
\* task t is a token request that waits for the discovery document
InToken(t) == tasks[t].handler = "token" /\ tasks[t].pc = "fetch_config"

\* resp is an error answered by the handler as JSON
JsonFailure(resp) == resp.kind = "json" /\ resp.status >= 400

\* C27: every failure of authorize, callback and token ends in a JSON error
\* response of the handler, never in an exception that leaves the handler:
\* when the discovery fetch a request waits for fails, the request is
\* answered with a JSON error.
C27_FailuresAnsweredAsJson ==
    \A t \in Tasks :
        /\ InToken(t) => JsonFailure(TokenConfigResponse(FALSE))
        /\ InCallback(t, "fetch_config") =>
              JsonFailure(CallbackConfigResponse(FALSE))
        /\ InAuthorize(t) =>
              JsonFailure(AuthorizeConfigResponse(tasks[t].req, FALSE))

(***************************************************************************)
(* Properties of the signing secret.                                       *)
(***************************************************************************)
\* JWT_SECRET_KEY is set in the environment: the module does not run with
\* the default it falls back to
SecretConfigured == env.JWT_SECRET_KEY # DefaultSecret

\* C28: when no signing secret is configured the relay never issues a
\* bearer token and never accepts one: no caller holds a token of the relay,
\* and neither validate nor the request gate has returned a principal.
C28_NoSecretNoTokens ==
    ~SecretConfigured =>
        /\ ~bearer.present
        /\ ~payload.present
        /\ ~principal.present

(***************************************************************************)
(* Properties of the usage log.                                            *)
(***************************************************************************)
\* the tool tool_name has been called in a task whose user context was
\* user_info
Called(tool_name, user_info) ==
    \E i \in DOMAIN tool_calls :
        /\ tool_calls[i].tool_name = tool_name
        /\ tool_calls[i].user_info = user_info

\* the usage log has a record of tool_name for the user user_info
Logged(tool_name, user_info) ==
    \E i \in DOMAIN tool_usage_logs :
        /\ tool_usage_logs[i].tool_name = tool_name
        /\ tool_usage_logs[i].user_id = user_info.sub

\* C29: when a synchronous tool wrapped by logged_tool is called in a task in
\* which set_user_context(u) was called, the logging task that the wrapper
\* schedules eventually writes a usage record of that tool for the user u.
C29_SyncToolEventuallyLogged ==
    \A user_info \in Principals :
        Called(SyncTool, user_info) ~> Logged(SyncTool, user_info)

(***************************************************************************)
(* Properties of the history of a bearer token.                            *)
(***************************************************************************)
\* the code records that have been created
CodeIds == 1..MaxCodeObjs

\* this step takes a /token request of task t past the checks
TokenPasses(t) == tasks[t].pc = "idle" /\ tasks'[t].handler = "token"

\* req passed the validation of authorize and names a state and a challenge
Recording(req) ==
    /\ env.GOOGLE_CREDENTIALS
    /\ AuthorizeError(req.client_id, req.redirect_uri)[1] = ""
    /\ StoresState(req.state, req.code_challenge)

\* what is stored holds a challenge; a /token request in flight works for a
\* record a callback created; authorize records what it was called with
C30_History ==
    /\ \A s \in States :
          KnownState(s) =>
              /\ oauth_state_storage[s].code_challenge # ""
              /\ oauth_state_storage[s].client_id # ""
    /\ \A c \in Codes :
          authorization_codes[c].present =>
              /\ authorization_codes[c].code_challenge # ""
              /\ authorization_codes[c].id \in 1..code_objs
    /\ \A t \in Tasks :
          tasks[t].handler = "token" => tasks[t].entry \in 1..code_objs
    /\ \A id \in CodeIds : tokens_issued[id] > 0 => id \in 1..code_objs
    /\ \A req \in FlowAuthorizeRequests :
          Recording(req) =>
              /\ AuthorizeOutcome(req).storage[req.state].present
              /\ Binding(AuthorizeOutcome(req).storage[req.state]) =
                    <<req.code_challenge, req.code_challenge_method,
                      req.client_id>>

\* a token is issued by a /token request in flight; a request gets in flight
\* with a verifier that hashes to the challenge of the record of its code; a
\* record is created by a callback that consumes a pending entry and takes
\* its challenge; a pending entry is written by an authorize call that was
\* made with that state and a challenge and passed the validation
C30_Step ==
    /\ \A id \in CodeIds :
          tokens_issued'[id] # tokens_issued[id] =>
              \E t \in Tasks : /\ tasks[t].handler = "token"
                               /\ tasks[t].pc = "userinfo"
                               /\ tasks[t].entry = id
    /\ \A t \in Tasks :
          TokenPasses(t) =>
              /\ LookupCode(tasks'[t].req.code).present
              /\ LookupCode(tasks'[t].req.code).id = tasks'[t].entry
              /\ generate_code_challenge(tasks'[t].req.code_verifier) =
                    LookupCode(tasks'[t].req.code).code_challenge
    /\ code_objs' # code_objs =>
          \E c \in Codes, s \in States :
              /\ KnownState(s)
              /\ ~KnownState(s)'
              /\ authorization_codes'[c].present
              /\ authorization_codes'[c].id = code_objs'
              /\ Binding(authorization_codes'[c]) =
                    Binding(oauth_state_storage[s])
    /\ \A s \in States :
          (/\ oauth_state_storage'[s].present
           /\ oauth_state_storage'[s] # oauth_state_storage[s]) =>
              \E t \in Tasks : \E req \in FlowAuthorizeRequests :
                  /\ AuthorizeReq(t, req)
                  /\ Recording(req)
                  /\ req.state = s
                  /\ Binding(oauth_state_storage'[s]) =
                        <<req.code_challenge, req.code_challenge_method,
                          req.client_id>>

\* C30: every bearer token /token issues is issued for a code record that a
\* callback created by consuming a pending authorization, which an authorize
\* call with that state, a challenge that is not empty and a client_id that
\* passed the validation had recorded; the verifier of the /token request
\* hashes to the challenge of that record, which is the challenge of the
\* last authorize call recorded for the state before the callback.
C30_TokenHasHistory ==
    /\ []C30_History
    /\ [][C30_Step]_vars

\* a token has been issued on a record bound to the second challenge
C30_Witness ==
    /\ authorization_codes["c1"].present
    /\ authorization_codes["c1"].code_challenge = generate_code_challenge("v2")
    /\ tokens_issued[authorization_codes["c1"].id] > 0

(***************************************************************************)
(* Properties of the rejected requests.                                    *)
(***************************************************************************)
\* the reasons for which token answers 400
TokenRejections ==
    {"unsupported_grant_type", "invalid_request", "invalid_grant",
     "invalid_client"}

\* a rejected /token request leaves the code records as they are, and a
\* request that matches a fresh record passes whatever was rejected before
C31_RejectedLeavesRecords ==
    \A req \in AllTokenRequests :
        /\ TokenOutcome(req).resp.kind = "json" =>
              /\ TokenOutcome(req).resp.status = 400
              /\ TokenOutcome(req).resp.error \in TokenRejections
              /\ TokenOutcome(req).codes = authorization_codes
        /\ TokenOutcome(req).resp.kind # "json" =>
              /\ Matches(req)
              /\ Fresh(req.code)
        /\ (Matches(req) /\ Fresh(req.code)) =>
              TokenOutcome(req).resp.kind = "await"

\* a record becomes used only in the step that takes a /token request for
\* its code past the checks
C31_UsedStep ==
    \A c \in Codes :
        (/\ authorization_codes[c].present
         /\ ~authorization_codes[c].used
         /\ authorization_codes'[c].present
         /\ authorization_codes'[c].used) =>
            \E t \in Tasks : /\ PassesChecks(t)
                             /\ tasks'[t].req.code = c
                             /\ tasks'[t].entry = authorization_codes[c].id

\* C31: a /token request that is answered 400, for the grant type, a missing
\* code or verifier, an unknown or used code, another client, an expired code
\* or a verifier that does not match, changes nothing: the record of the code
\* stays unused, and a later request with the right verifier and client
\* inside the ten minutes passes.
C31_RejectedTokenChangesNothing ==
    /\ []C31_RejectedLeavesRecords
    /\ [][C31_UsedStep]_vars

\* some time after its creation a code is still fresh, although requests
\* with another verifier and of another client are rejected for it
C31_Witness ==
    /\ Fresh("c1")
    /\ now > LookupCode("c1").created_at
    /\ \E req \in AllTokenRequests :
          /\ req.code = "c1"
          /\ TokenOutcome(req).resp.description = "Invalid code_verifier"
    /\ \E req \in AllTokenRequests :
          /\ req.code = "c1"
          /\ TokenOutcome(req).resp.description = "Client ID mismatch"
    /\ \E req \in AllTokenRequests :
          req.code = "c1" /\ TokenOutcome(req).resp.kind = "await"

(***************************************************************************)
(* Properties of the pending authorizations.                               *)
(***************************************************************************)
\* C32: authorize changes the map of pending authorizations only when it
\* returns the upstream redirect, for which it needs the discovery document:
\* as long as no discovery fetch has succeeded and no authorize call is
\* waiting for one, every authorize call so far has ended in an error and
\* the map is as it was at the start, empty.
C32_ErrorLeavesPendingMap ==
    (~CacheHit /\ \A t \in Tasks : ~InAuthorize(t)) =>
        \A s \in States : ~KnownState(s)

\* what a pending entry holds of the authorize call that recorded it
Recorded(entry) ==
    <<entry.code_challenge, entry.code_challenge_method, entry.client_id,
      entry.redirect_uri>>

\* what the authorize request req records: its challenge, method and client,
\* and the URI the callback is to send the browser to
RecordedBy(req) ==
    <<req.code_challenge, req.code_challenge_method, req.client_id,
      CallbackRedirectUri(req.client_id, req.redirect_uri)>>

C33_Replaces ==
    /\ DOMAIN oauth_state_storage = States
    /\ \A req \in FlowAuthorizeRequests :
          Recording(req) =>
              /\ Recorded(AuthorizeOutcome(req).storage[req.state]) =
                    RecordedBy(req)
              /\ AuthorizeOutcome(req).storage[req.state].created_at = now
              /\ \A s \in States \ {req.state} :
                    AuthorizeOutcome(req).storage[s] = oauth_state_storage[s]
    /\ \A req \in FlowCallbackRequests :
          Relayed(req) =>
              /\ Binding(CallbackOutcome(req).codes[req.code]) =
                    Binding(oauth_state_storage[req.state])
              /\ CallbackOutcome(req).resp.kind = "redirect" =>
                    CallbackOutcome(req).resp.location =
                        oauth_state_storage[req.state].redirect_uri

\* the entry of a state changes when an authorize call with that state
\* records, and then holds what that call gave, or when a callback consumes
\* it, and then the new code record takes its challenge and client
C33_PendingStep ==
    \A s \in States :
        oauth_state_storage'[s] # oauth_state_storage[s] =>
            \/ /\ oauth_state_storage'[s].present
               /\ \E t \in Tasks : \E req \in FlowAuthorizeRequests :
                     /\ AuthorizeReq(t, req)
                     /\ req.state = s
                     /\ Recorded(oauth_state_storage'[s]) = RecordedBy(req)
            \/ /\ KnownState(s)
               /\ ~oauth_state_storage'[s].present
               /\ \E c \in Codes :
                     /\ authorization_codes'[c].present
                     /\ authorization_codes'[c].id = code_objs'
                     /\ code_objs' = code_objs + 1
                     /\ Binding(authorization_codes'[c]) =
                           Binding(oauth_state_storage[s])

Accepts(scope) ==
    /\ scope.authorization.utf8
    /\ get_auth_context(scope.authorization.text).present

\* C34: with authentication enabled AuthWrapper hands an HTTP request to the
\* wrapped application only if get_auth_context accepts its Authorization
\* header, and answers 401 without calling the application otherwise; the
\* two well-known paths are answered 200 and never handed on
C34_AuthWrapperGuards ==
    request.type = "http" =>
        IF request.path \in WellKnownPaths
        THEN answer.status = 200 /\ ~answer.app_called
        ELSE AuthEnabled =>
                /\ answer.app_called => Accepts(request)
                /\ ~Accepts(request) =>
                      answer.status = 401 /\ ~answer.app_called

\* the key a header value stands for: what follows "Bearer ", or all of it
KeyOf(authorization) ==
    IF authorization.scheme = "Bearer " THEN authorization.rest
    ELSE authorization.scheme \o authorization.rest

\* C35 as stated: get_auth_context gives the anonymous context for every
\* header when authentication is not enabled; when it is enabled it gives a
\* context with the key's user id exactly when the key of the header is in
\* the configured key set, and None for an absent or empty header
C35_ContextIffKeyConfigured ==
    \A h \in Authorizations :
        IF ~AuthEnabled
        THEN get_auth_context(h) = AuthContext("anonymous", "")
        ELSE /\ get_auth_context(h).present <=>
                    h # NoAuthorization /\ KeyOf(h) \in DOMAIN api_keys
             /\ get_auth_context(h).present =>
                    get_auth_context(h).user_id = api_keys[KeyOf(h)]
             /\ h = NoAuthorization => ~get_auth_context(h).present

\* C35: get_auth_context gives the anonymous context for every header when
\* authentication is not enabled; when it is enabled it gives the context
\* of the key's user id exactly when the key of the header is not empty and
\* is configured with a user id that is not empty, and None otherwise
C35_ContextIffKeyHasUser ==
    \A h \in Authorizations :
        IF ~AuthEnabled
        THEN get_auth_context(h) = AuthContext("anonymous", "")
        ELSE IF /\ KeyOf(h) # ""
                /\ KeyOf(h) \in DOMAIN api_keys
                /\ api_keys[KeyOf(h)] # ""
             THEN get_auth_context(h) =
                      AuthContext(api_keys[KeyOf(h)], KeyOf(h))
             ELSE get_auth_context(h) = NoContext

\* AuthWrapper handed on a request that carried a configured key bare,
\* without the Bearer prefix
C35_Witness ==
    /\ AuthEnabled
    /\ request.type = "http"
    /\ request.path = "/sse"
    /\ request.authorization = Bytes(Authorization("", "key1"))
    /\ get_auth_context(Authorization("", "key1")) =
           AuthContext("user1", "key1")
    /\ answer.app_called

\* table users holds at most one row per user_id, and no row without
\* user_id or email
C36_OneRowPerUser ==
    \A r1, r2 \in users :
        /\ r1.user_id = r2.user_id => r1 = r2
        /\ r1.user_id # "" /\ r1.email # ""

\* no step takes a row away or changes its first_seen or email
C36_RowsKept ==
    \A row \in users : \E kept \in users' :
        /\ kept.user_id = row.user_id
        /\ kept.email = row.email
        /\ kept.first_seen = row.first_seen

\* C36: under every interleaving of upsert_user calls table users holds at
\* most one row per user_id, a row's first_seen and email never change once
\* it is inserted, and a call without sub or email writes nothing
C36_UpsertKeepsUsers == []C36_OneRowPerUser /\ [][C36_RowsKept]_vars

\* two calls for one user_id have both found no row, one of them has
\* inserted it at an earlier time, and the other is about to write
C36_Witness ==
    \E c \in DbCalls :
        /\ db_calls[c].pc = "write"
        /\ ~db_calls[c].exists
        /\ \E row \in users : /\ row.user_id = db_calls[c].user_info.sub
                              /\ row.email # db_calls[c].user_info.email
                              /\ row.first_seen < db_calls[c].at

\* C37: every row of tool_usage_logs has a user_id that table users holds a
\* row for, rows of users never being taken away; when upsert_user did not
\* create the user, log_tool_usage writes no row
C37_LogRowsHaveUser ==
    \A i \in DOMAIN tool_usage_logs :
        \E row \in users : row.user_id = tool_usage_logs[i].user_id

\* the calls of the async tool made so far
AsyncCalls == {i \in DOMAIN tool_calls : tool_calls[i].tool_name = AsyncTool}

\* C38: the wrapper of an async tool ends as the tool did, returning its
\* result or raising its exception; with a user context it calls
\* log_tool_usage exactly once, with a success flag that is true exactly
\* when the tool returned normally; a failure of the logging changes nothing
\* of that
C38_AsyncWrapperLogsOutcome ==
    \A i \in AsyncCalls :
        /\ tool_calls[i].outcome = tool_calls[i].tool
        /\ tool_calls[i].user_info.present =>
              /\ tool_calls[i].log_calls = 1
              /\ tool_calls[i].success <=> tool_calls[i].tool = "returned"
====
